---------------------------- MODULE Spec2Model ----------------------------
(***************************************************************************)
(* A model of ascii_moon (src/src/main.rs): the moon rasterizer            *)
(* MoonWidget::render and the phase calculator calculate_moon_phase.       *)
(*                                                                         *)
(* Numbers.  The rasterizer's geometry (fit, normalized coordinates, disc  *)
(* mask, illumination sign) is computed over exact rationals <<n, d>>.     *)
(* The two sides of every comparison the code makes there differ by far    *)
(* more than an f64 rounding error unless they are exactly equal, and an   *)
(* exact equality is computed exactly by f64 when its operands are binary  *)
(* fractions.  The textures of the model have crop boxes whose sides are   *)
(* powers of two, so that the fit is exact, and render is run on the       *)
(* inputs for which no comparison is left to a rounding (RenderInputs).    *)
(* The one IEEE effect the fit relies on, x / 0.0, is kept (<<1, 0>> is    *)
(* +inf, <<0, 0>> is NaN).  The phase calculator's normalize_degrees is    *)
(* modelled in rounded binary floating point of a reduced mantissa width,  *)
(* because there the rounding decides the result.                          *)
(***************************************************************************)
EXTENDS Integers, Sequences, FiniteSets, TLC

(***************************************************************************)
(* Bounds of the model.                                                    *)
(***************************************************************************)
MaxW == 8
MaxH == 4

\* The floating point of the phase calculator: MantBits bits of mantissa
\* (f64 has 53); the longitudes it is run on are the multiples of
\* 2^-FracBits.
MantBits == 6

FracBits == 2

\* The powers of two a value is scaled by when it is rounded to a float.
MaxShift == 20

\* The cosine is evaluated in fixed point, on CosBits binary places.
CosBits == 13

\* The interactive loop: the clock runs from 0 to MaxNow minutes, the
\* auto-refresh period is at most MaxRefresh minutes, and Left and Right
\* move the date MaxDays days off the clock's day at most.
MaxNow == 3

MaxRefresh == 2

MaxDays == 1

(***************************************************************************)
(* Exact rational arithmetic with the IEEE-754 results of a division by    *)
(* zero.  A value is <<n, d>> with d >= 0; the operations do not reduce    *)
(* their result, Q does, and the comparisons are by cross-multiplication.  *)
(***************************************************************************)
Abs(i) == IF i < 0 THEN -i ELSE i

Sign(i) == IF i > 0 THEN 1 ELSE IF i < 0 THEN -1 ELSE 0

RECURSIVE Gcd(_, _)
Gcd(a, b) == IF b = 0 THEN a ELSE Gcd(b, a % b)

Norm(n, d) ==
    IF d = 0 THEN <<Sign(n), 0>>
    ELSE IF d = 1 THEN <<n, 1>>
    ELSE LET g == Gcd(Abs(n), Abs(d))
             s == IF d < 0 THEN -1 ELSE 1
         IN  <<s * (n \div g), s * (d \div g)>>

R(i) == <<i, 1>>

IsNaN(a) == a[1] = 0 /\ a[2] = 0

IsFinite(a) == a[2] # 0

\* The same value in lowest terms.
Q(a) == Norm(a[1], a[2])

RAdd(a, b) == <<a[1] * b[2] + b[1] * a[2], a[2] * b[2]>>

RSub(a, b) == <<a[1] * b[2] - b[1] * a[2], a[2] * b[2]>>

RMul(a, b) == <<a[1] * b[1], a[2] * b[2]>>

\* a / b; a finite a over zero is an infinity of a's sign, 0 / 0 is NaN.
RDiv(a, b) ==
    IF b[1] < 0 THEN <<-(a[1] * b[2]), -(a[2] * b[1])>>
    ELSE <<a[1] * b[2], a[2] * b[1]>>

\* a == b; false when either side is NaN.
REq(a, b) ==
    IF IsNaN(a) \/ IsNaN(b) THEN FALSE
    ELSE IF ~IsFinite(a) \/ ~IsFinite(b)
    THEN ~IsFinite(a) /\ ~IsFinite(b) /\ Sign(a[1]) = Sign(b[1])
    ELSE a[1] * b[2] = b[1] * a[2]

\* a < b; false when either side is NaN, as every IEEE comparison is.
RLt(a, b) ==
    IF IsNaN(a) \/ IsNaN(b) THEN FALSE
    ELSE IF ~IsFinite(a) THEN a[1] < 0 /\ ~(~IsFinite(b) /\ b[1] < 0)
    ELSE IF ~IsFinite(b) THEN b[1] > 0
    ELSE a[1] * b[2] < b[1] * a[2]

RLe(a, b) ==
    IF IsNaN(a) \/ IsNaN(b) THEN FALSE
    ELSE ~RLt(b, a)

RSign(a) == Sign(a[1])

RECURSIVE IsPow2(_)
IsPow2(n) == n = 1 \/ (n > 1 /\ n % 2 = 0 /\ IsPow2(n \div 2))

\* A finite value that is a binary fraction: f64 holds it exactly.
Representable(a) == IsFinite(a) /\ IsPow2(Q(a)[2])

\* f64::floor of a finite value.
RFloor(a) == a[1] \div a[2]

U16_MAX == 65535

\* `v as u16` of an f64: truncation toward zero, saturating, NaN to 0.
AsU16(a) ==
    IF IsNaN(a) THEN 0
    ELSE IF ~IsFinite(a) THEN (IF a[1] > 0 THEN U16_MAX ELSE 0)
    ELSE IF a[1] <= 0 THEN 0
    ELSE IF a[1] \div a[2] > U16_MAX THEN U16_MAX
    ELSE a[1] \div a[2]

Min(a, b) == IF a < b THEN a ELSE b


(***************************************************************************)
(* Textures.  MOON_ART_RAW is one 79-line constant (crop box 200 x 79);    *)
(* the model runs render over a small family of textures: rows of unequal  *)
(* length, leading blank columns and rows, empty lines, spaces inside the  *)
(* crop box, and the degenerate textures render guards against.  A texture *)
(* is the sequence str::lines yields, each line a sequence of              *)
(* one-character strings.  The crop boxes are 4 x 2, 2 x 4 and 4 x 4.      *)
(***************************************************************************)
ArtWide ==
    << <<" ", ".", "#", "#", "%">>,
       <<" ", "/", "&", "@", "(">> >>

ArtTall ==
    << <<>>,
       <<"#", " ">>,
       <<" ", "@">>,
       <<" ", " ", " ">>,
       <<"%">> >>

ArtSquare ==
    << <<" ", " ", " ", " ">>,
       <<" ", " ", "#", "@", " ", " ">>,
       <<" ", "(", ".", "&", "%">>,
       <<" ", "/", " ", "%">>,
       <<" ", "#">> >>

ArtNoRows == << >>

ArtEmptyLines == << <<>>, <<>> >>

ArtSpaces == << <<" ", " ">>, <<" ">> >>

Textures == {ArtWide, ArtTall, ArtSquare, ArtNoRows, ArtEmptyLines, ArtSpaces}

\* MOON_ART_RAW.lines().filter(|l| !l.is_empty()).map(|l| l.chars().collect())
source_lines(art) == SelectSeq(art, LAMBDA l : Len(l) > 0)

\* usize::MAX, the start value of min_x and min_y: above every index.
USIZE_MAX == 2147483647

\* The (x, y) of every non-space character, 0-based as enumerate() counts.
NonSpace(sl) ==
    UNION {{<<x, y>> : x \in {i \in 0 .. Len(sl[y + 1]) - 1 : sl[y + 1][i + 1] # " "}} :
           y \in 0 .. Len(sl) - 1}

SetMin(S) == CHOOSE m \in S : \A n \in S : m <= n

SetMax(S) == CHOOSE m \in S : \A n \in S : m >= n

\* The box of every character, the spaces too.
BoundingBoxOfRows(sl) ==
    LET xs == UNION {0 .. Len(sl[y]) - 1 : y \in 1 .. Len(sl)}
    IN  IF NonSpace(sl) = {}
        THEN [min_x |-> USIZE_MAX, max_x |-> 0, min_y |-> USIZE_MAX, max_y |-> 0]
        ELSE [min_x |-> SetMin(xs), max_x |-> SetMax(xs),
              min_y |-> 0, max_y |-> Len(sl) - 1]

\* The bounding box the two nested loops leave in min_x, max_x, min_y, max_y.
BoundingBox(sl) ==
    LET ns == NonSpace(sl)
        xs == {c[1] : c \in ns}
        ys == {c[2] : c \in ns}
    IN  IF ns = {}
        THEN [min_x |-> USIZE_MAX, max_x |-> 0, min_y |-> USIZE_MAX, max_y |-> 0]
        ELSE [min_x |-> SetMin(xs), max_x |-> SetMax(xs),
              min_y |-> SetMin(ys), max_y |-> SetMax(ys)]

(***************************************************************************)
(* Colours and cells (ratatui::style::Color, ratatui::buffer::Cell).       *)
(***************************************************************************)
moon_lit_color(truecolor) ==
    IF truecolor THEN "Rgb(232,208,88)" ELSE "Indexed(214)"

\* The indexed shadow colour mistaken for the indexed lit colour.
moon_shadow_color_as_lit(truecolor) ==
    IF truecolor THEN "Rgb(92,92,98)" ELSE "Indexed(214)"

moon_shadow_color(truecolor) ==
    IF truecolor THEN "Rgb(92,92,98)" ELSE "Indexed(242)"

\* Cell::default(), which Buffer::empty, Clear and Cell::reset leave in a cell.
BlankCell == [ch |-> " ", fg |-> "Reset", bold |-> FALSE]

(***************************************************************************)
(* The language of the labels and the feature table.                       *)
(***************************************************************************)
Languages == <<"English", "Chinese", "French", "Japanese", "Spanish">>

\* `self.language as usize`
LanguageIndex(language) == CHOOSE i \in 1 .. 5 : Languages[i] = language

\* The number of characters of names[language] of each of LUNAR_FEATURES.
LUNAR_FEATURE_NAME_CHARS ==
    << <<19, 3, 18, 4, 23>>,
       <<12, 2, 14, 3, 18>>,
       <<16, 2, 18, 4, 19>>,
       <<20, 2, 22, 4, 22>>,
       <<12, 2, 14, 4, 17>>,
       <<5, 2, 5, 3, 5>>,
       <<10, 3, 8, 6, 9>>,
       <<6, 3, 6, 4, 6>>,
       <<11, 6, 10, 7, 9>>,
       <<5, 3, 6, 4, 6>> >>

\* unicode_width of one character of a name: the Chinese and Japanese names
\* are all wide characters, the others all narrow.
CharWidth(language) ==
    IF language \in {"Chinese", "Japanese"} THEN 2 ELSE 1

\* name.width()
NameWidth(f, language) ==
    LUNAR_FEATURE_NAME_CHARS[f][LanguageIndex(language)] * CharWidth(language)

\* The k-th character of feature f's name, as the symbol a cell holds.
NameGlyph(f, language, k) ==
    language \o ":" \o ToString(f) \o ":" \o ToString(k)

\* The screen-normalized (nx, ny) of each feature, lines 783-799, in
\* ten-thousandths: 0.5 + (cos(lat) sin(lon) * 0.95 - 0.10) / 2 and
\* 0.5 - (sin(lat) * 0.95 - 0.10) / 2.
LUNAR_FEATURE_NXY ==
    << <<703, 4001>>, <<2775, 2927>>, <<5542, 3875>>, <<6307, 5210>>,
       <<8373, 4111>>, <<3829, 8758>>, <<2890, 4708>>, <<1605, 4831>>,
       <<1298, 3591>>, <<4023, 1777>> >>

FeatureNx(f) == <<LUNAR_FEATURE_NXY[f][1], 10000>>

FeatureNy(f) == <<LUNAR_FEATURE_NXY[f][2], 10000>>

(***************************************************************************)
(* The phases render is run at, and (sin, -cos) of angle = phase * 2 * PI. *)
(* v is the real value; where the real value is 0 but f64 sin/cos of the   *)
(* f64 angle is a tiny non-zero number, e is that number's sign            *)
(* (sin(PI) = 1.2e-16, cos(PI/2) = 6.1e-17, cos(3PI/2) = -1.8e-16).        *)
(* The two phases between the quarters have a rational sine and cosine     *)
(* (3/5, 4/5), so that the sign of the illumination is decided exactly.    *)
(***************************************************************************)
PhaseNew == <<0, 1>>

PhaseFirstQuarter == <<1, 4>>

PhaseFull == <<1, 2>>

PhaseLastQuarter == <<3, 4>>

\* atan2(3, 4) / 2 PI = 0.1024...
PhaseWaxingCrescent == <<64, 625>>

\* (PI + atan2(4, 3)) / 2 PI = 0.6476...
PhaseWaningGibbous == <<1619, 2500>>

Phases ==
    {PhaseNew, PhaseWaxingCrescent, PhaseFirstQuarter, PhaseFull,
     PhaseWaningGibbous, PhaseLastQuarter}

\* sun_x = angle.sin()
SunX(phase) ==
    CASE phase = PhaseNew -> [v |-> R(0), e |-> 0]
      [] phase = PhaseWaxingCrescent -> [v |-> <<3, 5>>, e |-> 0]
      [] phase = PhaseFirstQuarter -> [v |-> R(1), e |-> 0]
      [] phase = PhaseFull -> [v |-> R(0), e |-> 1]
      [] phase = PhaseWaningGibbous -> [v |-> <<-4, 5>>, e |-> 0]
      [] phase = PhaseLastQuarter -> [v |-> R(-1), e |-> 0]

\* sun_z = -angle.cos()
SunZ(phase) ==
    CASE phase = PhaseNew -> [v |-> R(-1), e |-> 0]
      [] phase = PhaseWaxingCrescent -> [v |-> <<-4, 5>>, e |-> 0]
      [] phase = PhaseFirstQuarter -> [v |-> R(0), e |-> -1]
      [] phase = PhaseFull -> [v |-> R(1), e |-> 0]
      [] phase = PhaseWaningGibbous -> [v |-> <<3, 5>>, e |-> 0]
      [] phase = PhaseLastQuarter -> [v |-> R(0), e |-> 1]

\* The sign of the real number u * sun_x + z * sun_z with
\* z = sqrt(1 - u*u - v*v), zz = z * z >= 0.  The two terms are compared
\* through their squares.
RealIntensitySign(u, zz, sun_x, sun_z) ==
    LET a == RMul(u, sun_x.v)
        sa == RSign(a)
        sb == RSign(sun_z.v) * RSign(zz)
        aa == RMul(a, a)
        bb == RMul(zz, RMul(sun_z.v, sun_z.v))
    IN  IF sa >= 0 /\ sb >= 0 THEN Sign(sa + sb)
        ELSE IF sa <= 0 /\ sb <= 0 THEN -1
        ELSE IF RLt(bb, aa) THEN sa
        ELSE IF RLt(aa, bb) THEN sb
        ELSE 0

\* The sign of intensity; when the real value is 0 the tiny f64 terms decide.
IntensitySign(u, zz, sun_x, sun_z) ==
    LET real == RealIntensitySign(u, zz, sun_x, sun_z)
    IN  IF real # 0 THEN real
        ELSE Sign(RSign(u) * sun_x.e + RSign(zz) * sun_z.e)

(***************************************************************************)
(* Rect and Buffer.  A Rect is [x, y, width, height]; the buffer covers    *)
(* the columns 0 .. BufW - 1 and the rows 0 .. BufH - 1, the largest area  *)
(* and the layout's margin on each side of it, and a cell is addressed by  *)
(* <<x, y>>.                                                                *)
(***************************************************************************)
\* Layout::margin(1) of the draw closure.
Margin == 1

BufW == Margin + MaxW + Margin

BufH == Margin + MaxH + Margin

BufCells == (0 .. BufW - 1) \X (0 .. BufH - 1)

Left(area) == area.x

Right(area) == area.x + area.width

Top(area) == area.y

Bottom(area) == area.y + area.height

\* The cells of `for y in area.top()..area.bottom()`, `for x in
\* area.left()..area.right()`.
AreaCells(area) ==
    (Left(area) .. Right(area) - 1) \X (Top(area) .. Bottom(area) - 1)

\* The areas render is called with: print_moon's starts at (0, 0), the draw
\* closure's at the layout's margin.
Areas ==
    {[x |-> o, y |-> o, width |-> wd, height |-> ht] :
        o \in {0, Margin}, wd \in 0 .. MaxW, ht \in 0 .. MaxH}

(***************************************************************************)
(* MoonWidget::render, the fit (lines 691-711).                            *)
(***************************************************************************)
\* The comparison turned round.
WidthLimitedReversed(avail_w, avail_h, art_aspect) ==
    RLt(art_aspect, RDiv(avail_w, avail_h))

\* `avail_w / avail_h < art_aspect`: limited by width.
WidthLimited(avail_w, avail_h, art_aspect) ==
    RLt(RDiv(avail_w, avail_h), art_aspect)

\* The width-limited height multiplied by the aspect instead of divided.
DrawSizeMultiplied(avail_w, avail_h, art_aspect) ==
    IF WidthLimited(avail_w, avail_h, art_aspect)
    THEN <<avail_w, Q(RMul(avail_w, art_aspect))>>
    ELSE <<Q(RMul(avail_h, art_aspect)), avail_h>>

\* (draw_w, draw_h)
DrawSize(avail_w, avail_h, art_aspect) ==
    IF WidthLimited(avail_w, avail_h, art_aspect)
    THEN <<avail_w, Q(RDiv(avail_w, art_aspect))>>
    ELSE <<Q(RMul(avail_h, art_aspect)), avail_h>>

\* Everything render computes before its loops, from the bounding box bb.
Fit(area, bb) ==
    LET crop_w == R(bb.max_x - bb.min_x + 1)
        crop_h == R(bb.max_y - bb.min_y + 1)
        art_aspect == Q(RDiv(crop_w, crop_h))
        avail_w == R(area.width)
        avail_h == R(area.height)
        draw == DrawSize(avail_w, avail_h, art_aspect)
    IN  [min_x |-> bb.min_x, min_y |-> bb.min_y,
         crop_w |-> crop_w, crop_h |-> crop_h, art_aspect |-> art_aspect,
         draw_w |-> draw[1], draw_h |-> draw[2],
         start_x |-> Q(RAdd(R(Left(area)), RDiv(RSub(avail_w, draw[1]), R(2)))),
         start_y |-> Q(RAdd(R(Top(area)), RDiv(RSub(avail_h, draw[2]), R(2))))]

(***************************************************************************)
(* MoonWidget::render, one cell of the sampling loop (lines 718-775).      *)
(***************************************************************************)
NormX(g, x) == Q(RDiv(RSub(R(x), g.start_x), g.draw_w))

NormY(g, y) == Q(RDiv(RSub(R(y), g.start_y), g.draw_h))

\* (0.0..1.0).contains(&n)
InUnit(n) == RLe(R(0), n) /\ RLt(n, R(1))

\* dist_sq = dx * dx + dy * dy, dx = nx - 0.5, dy = ny - 0.5
DistSq(nx, ny) ==
    LET dx == RSub(nx, <<1, 2>>)
        dy == RSub(ny, <<1, 2>>)
    IN  RAdd(RMul(dx, dx), RMul(dy, dy))

\* The mask dropped: no cell of the box is taken to be outside the disc.
OutsideDiscNever(nx, ny) == FALSE

\* `dist_sq > 0.25`: the cell is outside the disc.
OutsideDisc(nx, ny) == RLt(<<1, 4>>, DistSq(nx, ny))

\* u = dx * 2.0, v = dy * 2.0 and z_sq = 1.0 - u*u - v*v of a cell.
Sphere(nx, ny) ==
    LET u == Q(RMul(RSub(nx, <<1, 2>>), R(2)))
        v == Q(RMul(RSub(ny, <<1, 2>>), R(2)))
    IN  [u |-> u, v |-> v, zz |-> Q(RSub(RSub(R(1), RMul(u, u)), RMul(v, v)))]

\* `intensity > 0.0` of a cell inside the disc, at the widget's phase.
Lit(nx, ny, phase) ==
    LET s == Sphere(nx, ny)
    IN  IntensitySign(s.u, s.zz, SunX(phase), SunZ(phase)) > 0

\* A column past the end of a short row taken for a `continue`.
SampleCharSkipsShortRow(sl, g, nx, ny) ==
    LET src_y == RFloor(RAdd(R(g.min_y), RMul(ny, g.crop_h)))
        src_x == RFloor(RAdd(R(g.min_x), RMul(nx, g.crop_w)))
    IN  IF src_y >= Len(sl) THEN "skip"
        ELSE IF src_x < Len(sl[src_y + 1]) THEN sl[src_y + 1][src_x + 1]
        ELSE "skip"

\* The character sampled for an in-box cell: ch, or "skip" for `continue`.
SampleChar(sl, g, nx, ny) ==
    LET src_y == RFloor(RAdd(R(g.min_y), RMul(ny, g.crop_h)))
        src_x == RFloor(RAdd(R(g.min_x), RMul(nx, g.crop_w)))
    IN  IF src_y >= Len(sl) THEN "skip"
        ELSE IF src_x < Len(sl[src_y + 1]) THEN sl[src_y + 1][src_x + 1]
        ELSE " "

\* The shadow branch taken whatever hide_dark is.
ShadowWrittenAlways(hide_dark) == TRUE

\* Whether the shadow branch writes: `else if !self.hide_dark`.
ShadowWritten(hide_dark) == ~hide_dark

\* What one iteration does to the cell at (x, y): [write |-> FALSE], or the
\* character and colour it sets.
Sample(sl, g, w, x, y) ==
    LET nx == NormX(g, x)
        ny == NormY(g, y)
    IN  IF ~InUnit(ny) \/ ~InUnit(nx) THEN [write |-> FALSE]
        ELSE LET ch == SampleChar(sl, g, nx, ny)
             IN  IF ch = "skip" THEN [write |-> FALSE]
                 ELSE IF OutsideDisc(nx, ny) THEN [write |-> FALSE]
                 ELSE IF Lit(nx, ny, w.phase_fraction)
                 THEN [write |-> TRUE, ch |-> ch,
                       fg |-> moon_lit_color(w.truecolor)]
                 ELSE IF ShadowWritten(w.hide_dark)
                 THEN [write |-> TRUE, ch |-> ch,
                       fg |-> moon_shadow_color(w.truecolor)]
                 ELSE [write |-> FALSE]

\* A cell whose mask test or illumination test is left to the rounding of
\* f64: dist_sq is exactly 0.25 (and z_sq exactly 0) at coordinates f64 does
\* not hold exactly, or the intensity is exactly 0 in front of a sun vector
\* f64 does not hold exactly.
RoundingDecides(g, phase, x, y) ==
    LET nx == NormX(g, x)
        ny == NormY(g, y)
        s == Sphere(nx, ny)
    IN  /\ InUnit(ny) /\ InUnit(nx)
        /\ \/ /\ REq(DistSq(nx, ny), <<1, 4>>)
              /\ ~(Representable(nx) /\ Representable(ny))
           \/ /\ ~RLt(<<1, 4>>, DistSq(nx, ny))
              /\ SunX(phase).v[2] # 1
              /\ RSign(s.zz) > 0
              /\ RealIntensitySign(s.u, s.zz, SunX(phase), SunZ(phase)) = 0

(***************************************************************************)
(* MoonWidget::render, the label overlay (lines 780-817).  A render in     *)
(* progress is [buf, written, panicked]: the buffer, the set of cells      *)
(* written so far, and whether a Buffer::get_mut was handed a cell outside *)
(* the buffer (index out of bounds).                                       *)
(***************************************************************************)
\* buf.get_mut(x, y).set_char(ch).set_fg / set_style(fg): the character and
\* the foreground change, the modifiers stay.
SetCell(st, c, ch, fg) ==
    IF c \notin BufCells THEN [st EXCEPT !.panicked = TRUE]
    ELSE [st EXCEPT !.buf[c] = [ch |-> ch, fg |-> fg, bold |-> @.bold],
                    !.written = @ \cup {c}]

\* Buffer::set_string(x, y, name, Cyan + BOLD): each character goes to the
\* next free column and, if wide, resets the column it covers; the string is
\* cut at the buffer's right edge.
SetString(st, x, y, f, language) ==
    LET cw == CharWidth(language)
        n == LUNAR_FEATURE_NAME_CHARS[f][LanguageIndex(language)]
        kmax == Min(n, (BufW - x) \div cw)
        cols == x .. x + kmax * cw - 1
    IN  [st EXCEPT
            !.buf =
                [c \in BufCells |->
                    IF c[2] = y /\ c[1] \in cols
                    THEN IF (c[1] - x) % cw = 0
                         THEN [ch |-> NameGlyph(f, language, (c[1] - x) \div cw + 1),
                               fg |-> "Cyan", bold |-> TRUE]
                         ELSE BlankCell
                    ELSE st.buf[c]],
            !.written = @ \cup {<<c, y>> : c \in cols}]

\* The fit check dropped: every name is written.
LabelFitsAlways(label_x, width, area) == TRUE

\* `label_x + (name.width() as u16) < area.right()`
LabelFits(label_x, width, area) == label_x + width < Right(area)

\* The two upper bounds taken inclusive.
MarkerInAreaInclusive(x_idx, y_idx, area) ==
    /\ x_idx >= Left(area) /\ x_idx <= Right(area)
    /\ y_idx >= Top(area) /\ y_idx <= Bottom(area)

\* `x_idx >= area.left() && x_idx < area.right() && y_idx >= area.top() &&
\* y_idx < area.bottom()`
MarkerInArea(x_idx, y_idx, area) ==
    /\ x_idx >= Left(area) /\ x_idx < Right(area)
    /\ y_idx >= Top(area) /\ y_idx < Bottom(area)

\* The cell (x_idx, y_idx) feature f projects to.
FeatureCell(g, f) ==
    <<AsU16(RAdd(g.start_x, RMul(FeatureNx(f), g.draw_w))),
      AsU16(RAdd(g.start_y, RMul(FeatureNy(f), g.draw_h)))>>

\* One iteration of `for feature in LUNAR_FEATURES`.
RenderLabel(st, f, area, g, w) ==
    LET c == FeatureCell(g, f)
        marked == SetCell(st, c, "x", "Red")
        label_x == c[1] + 1
    IN  IF ~MarkerInArea(c[1], c[2], area) THEN st
        ELSE IF LabelFits(label_x, NameWidth(f, w.language), area)
        THEN SetString(marked, label_x, c[2], f, w.language)
        ELSE marked

NumFeatures == Len(LUNAR_FEATURE_NXY)

\* The features taken last first.
RECURSIVE RenderLabelsReversed(_, _, _, _, _)
RenderLabelsReversed(st, f, area, g, w) ==
    IF f > NumFeatures THEN st
    ELSE RenderLabel(RenderLabelsReversed(st, f + 1, area, g, w), f, area, g, w)

\* `for feature in LUNAR_FEATURES`, from feature f on.
RECURSIVE RenderLabels(_, _, _, _, _)
RenderLabels(st, f, area, g, w) ==
    IF f > NumFeatures THEN st
    ELSE RenderLabels(RenderLabel(st, f, area, g, w), f + 1, area, g, w)

(***************************************************************************)
(* MoonWidget::render (lines 662-818): the buffer it leaves and the cells  *)
(* it wrote, from the buffer `pre` it was handed.                          *)
(***************************************************************************)
\* `if min_x > max_x || min_y > max_y { return; }`
CropInverted(bb) == bb.min_x > bb.max_x \/ bb.min_y > bb.max_y

\* The two nested loops over the area's cells.  An iteration reads nothing
\* an earlier one wrote and writes its own cell only, so the loops are taken
\* cell by cell.
SampleLoop(st, sl, g, w, area) ==
    LET hits == {p \in {<<c, Sample(sl, g, w, c[1], c[2])>> : c \in AreaCells(area)} :
                    p[2].write}
        cells == {p[1] : p \in hits}
        s(c) == (CHOOSE p \in hits : p[1] = c)[2]
    IN  [buf |-> [c \in BufCells |->
                    IF c \in cells
                    THEN [ch |-> s(c).ch, fg |-> s(c).fg, bold |-> st.buf[c].bold]
                    ELSE st.buf[c]],
         written |-> st.written \cup (cells \cap BufCells),
         panicked |-> st.panicked \/ ~(cells \subseteq BufCells)]

\* The locals of a render that returned before the fit.
NoFit ==
    [min_x |-> 0, min_y |-> 0, crop_w |-> R(0), crop_h |-> R(0),
     art_aspect |-> R(0), draw_w |-> R(0), draw_h |-> R(0),
     start_x |-> R(0), start_y |-> R(0)]

\* The result is [buf, written, panicked] and fit, the locals of the fit.
render(w, area, art, pre) ==
    LET sl == source_lines(art)
        bb == BoundingBox(sl)
        g == Fit(area, bb)
        untouched == [buf |-> pre, written |-> {}, panicked |-> FALSE]
        sampled == SampleLoop(untouched, sl, g, w, area)
    IN  IF Len(sl) = 0 THEN [st |-> untouched, fit |-> NoFit, fitted |-> FALSE]
        ELSE IF CropInverted(bb)
        THEN [st |-> untouched, fit |-> NoFit, fitted |-> FALSE]
        ELSE [st |-> IF w.show_labels THEN RenderLabels(sampled, 1, area, g, w)
                     ELSE sampled,
              fit |-> g, fitted |-> TRUE]

\* The (area, texture, phase) render is run on: those with no cell left to
\* a rounding.
RenderInputs ==
    {i \in Areas \X Textures \X Phases :
        LET sl == source_lines(i[2])
            bb == BoundingBox(sl)
        IN  \/ Len(sl) = 0
            \/ CropInverted(bb)
            \/ \A c \in AreaCells(i[1]) :
                   ~RoundingDecides(Fit(i[1], bb), i[3], c[1], c[2])}

(***************************************************************************)
(* Binary floating point, round to nearest, ties to even, on MantBits      *)
(* bits of mantissa.  A float is a rational m * 2^e with m < 2^MantBits;   *)
(* the exponent is not bounded (nothing here comes near f64's range).      *)
(* A zero carries no sign: every use below treats -0.0 as 0.0 does.        *)
(***************************************************************************)
RECURSIVE Pow2(_)
Pow2(k) == IF k = 0 THEN 1 ELSE 2 * Pow2(k - 1)

\* n / d, n >= 0, rounded to an integer, a tie to the even one.
RoundHalfEven(n, d) ==
    LET m == n \div d
        r == n % d
    IN  IF 2 * r > d \/ (2 * r = d /\ m % 2 = 1) THEN m + 1 ELSE m

\* The float nearest to n / d > 0: n / d is scaled by the power of two that
\* brings it into 2^(MantBits - 1) .. 2^MantBits - 1, rounded there and
\* scaled back.
FlPos(n, d) ==
    LET up == SetMin({k \in 0 .. MaxShift : n \div d < Pow2(MantBits + k)})
        need == (Pow2(MantBits - 1) * d + n - 1) \div n
        down == SetMin({k \in 0 .. MaxShift : Pow2(k) >= need})
    IN  IF up > 0 THEN RMul(R(RoundHalfEven(n, Pow2(up) * d)), R(Pow2(up)))
        ELSE RDiv(R(RoundHalfEven(Pow2(down) * n, d)), R(Pow2(down)))

\* The float an arithmetic operation returns for the exact result a.
Fl(a) ==
    IF a[1] = 0 THEN R(0)
    ELSE IF a[1] > 0 THEN Q(FlPos(a[1], a[2]))
    ELSE LET f == Q(FlPos(-a[1], a[2])) IN <<-f[1], f[2]>>

\* The fraction cut off instead of rounded.
RoundTowardZero(a) == Sign(a[1]) * (Abs(a[1]) \div a[2])

\* f64::round: to the nearest integer, a tie away from zero.
RoundHalfAway(a) ==
    LET n == Abs(a[1])
        m == (2 * n + a[2]) \div (2 * a[2])
    IN  Sign(a[1]) * m

I32_MAX == 2147483647

\* `v as i32` of an integer-valued f64: saturating.
AsI32(i) == IF i > I32_MAX THEN I32_MAX ELSE IF i < -I32_MAX - 1 THEN -I32_MAX - 1 ELSE i

\* a % b of Rust's integers and floats: the remainder of the division
\* truncated toward zero, with the sign of a.
Rem(a, b) == Sign(a) * (Abs(a) % b)

(***************************************************************************)
(* The phase calculator (lines 290-374), from the two ecliptic longitudes. *)
(***************************************************************************)
\* deg %= 360.0 is exact; deg += 360.0 rounds.
normalize_degrees(deg) ==
    LET r == Q(RSub(deg, R(360 * (Sign(deg[1]) * (Abs(deg[1]) \div (360 * deg[2]))))))
    IN  IF RLt(r, R(0)) THEN Fl(RAdd(r, R(360))) ELSE r

\* std::f64::consts::PI: the float nearest to pi (355/113 is pi to 3 in
\* 10^7, and rounds as pi does on the mantissas used here).
PI == Fl(<<355, 113>>)

\* deg * std::f64::consts::PI / 180.0
deg_to_rad(deg) == Fl(RDiv(Fl(RMul(deg, PI)), R(180)))

(***************************************************************************)
(* f64::cos, as a library computes it: the argument is reduced to          *)
(* 0 .. pi/2 by the symmetries of the cosine, a polynomial is evaluated    *)
(* there, and the result is rounded to a float.  The evaluation is in      *)
(* fixed point, in units of 2^-CosBits.                                    *)
(***************************************************************************)
CosOne == Pow2(CosBits)

\* pi in units of 2^-CosBits, to the nearest unit.
CosPi == (2 * 355 * CosOne + 113) \div (2 * 113)

\* a * b of two fixed-point values, to the nearest unit.
FixMul(a, b) == (2 * a * b + CosOne) \div (2 * CosOne)

\* The polynomial 1 - r^2/2 + r^4/24 - ... + r^12/12!  on 0 <= r <= pi/2,
\* evaluated innermost term first.
CosPoly(r) ==
    LET r2 == FixMul(r, r)
        t5 == CosOne - r2 \div 132
        t4 == CosOne - FixMul(r2, t5) \div 90
        t3 == CosOne - FixMul(r2, t4) \div 56
        t2 == CosOne - FixMul(r2, t3) \div 30
        t1 == CosOne - FixMul(r2, t2) \div 12
    IN  CosOne - FixMul(r2, t1) \div 2

\* The fixed-point cosine of the fixed-point angle x >= 0.
CosFixed(x) ==
    LET t == x % (2 * CosPi)
        h == IF t > CosPi THEN 2 * CosPi - t ELSE t
    IN  IF 2 * h > CosPi THEN -CosPoly(CosPi - h) ELSE CosPoly(h)

\* f64::cos of a float rad >= 0.
cos(rad) ==
    Fl(<<CosFixed((2 * rad[1] * CosOne + rad[2]) \div (2 * rad[2])), CosOne>>)

\* The factor 0.5 left out.
IlluminationNoHalf(elongation_deg) ==
    Fl(RMul(Fl(RSub(R(1), cos(deg_to_rad(elongation_deg)))), R(100)))

\* `0.5 * (1.0 - deg_to_rad(elongation_deg).cos())`, then `* 100.0`.
Illumination(elongation_deg) ==
    Fl(RMul(Fl(RMul(<<1, 2>>, Fl(RSub(R(1), cos(deg_to_rad(elongation_deg)))))),
            R(100)))

\* const SYNODIC_MONTH: f64 = 29.53058867, as the nearest float.
SYNODIC_MONTH == Fl(<<29530589, 1000000>>)

MoonPhase ==
    <<"New", "WaxingCrescent", "FirstQuarter", "WaxingGibbous",
      "Full", "WaningGibbous", "LastQuarter", "WaningCrescent">>

\* (phase_fraction * 8.0).round() as i32 % 8
Segment(phase_fraction) ==
    Rem(AsI32(RoundHalfAway(Fl(RMul(phase_fraction, R(8))))), 8)

\* The `_ => MoonPhase::New` arm of the match.
FallbackArm(segment) == segment \notin 0 .. 7

\* match segment { 0 => New, ..., 7 => WaningCrescent, _ => New }
PhaseOfSegment(segment) ==
    IF FallbackArm(segment) THEN "New" ELSE MoonPhase[segment + 1]

\* calculate_moon_phase from lambda_moon and lambda_sun on.
MoonStatusOf(lm, ls) ==
    LET elongation_deg == normalize_degrees(Fl(RSub(lm, ls)))
        phase_fraction == Fl(RDiv(elongation_deg, R(360)))
        segment == Segment(phase_fraction)
    IN  [elongation_deg |-> elongation_deg,
         phase_fraction |-> phase_fraction,
         age_days |-> Fl(RMul(phase_fraction, SYNODIC_MONTH)),
         illumination |-> Illumination(elongation_deg),
         segment |-> segment,
         phase |-> PhaseOfSegment(segment)]

\* The longitudes normalize_degrees hands on: floats in [0, 360).
Longitudes ==
    {Q(<<t, Pow2(FracBits)>>) : t \in
        {u \in 0 .. 360 * Pow2(FracBits) - 1 :
            REq(Fl(<<u, Pow2(FracBits)>>), <<u, Pow2(FracBits)>>)}}

(***************************************************************************)
(* The state: one render call.  The widget, the area and the texture are   *)
(* drawn by Init; buf is the buffer, cleared as both callers of render     *)
(* hand it over (Buffer::empty in print_moon, Clear in the draw closure),  *)
(* and written is the set of cells the call wrote.                         *)
(***************************************************************************)
VARIABLES widget, area, art, buf, written, panicked, fit, fitted,
          lambda_moon, lambda_sun, status, pc

\* The date calculate_moon_phase is called with.
VARIABLE dt

\* The state of main and run_app: where the program is, its command line,
\* the terminal's width, the locals of run_app that decide which date is
\* shown and when, the clock, the event in hand, whether the terminal is in
\* raw mode, what was written to stdout, and what the last frame shows.
VARIABLES app_pc, args, terminal_width, date, follow_now, last_tick, now,
          needs_redraw, show_poem, event, raw_mode, stdout, frame

app_vars ==
    <<app_pc, args, terminal_width, date, follow_now, last_tick, now,
      needs_redraw, show_poem, event, raw_mode, stdout, frame>>

\* The poems: the poem directory as the file system has it, the texts
\* embedded in the binary, the library load_poems builds from both, and a
\* pick_poem call: its language, what random_poem found and its result.
VARIABLES files, embedded, poem_library, lang, found, poem, poem_pc

\* The poem pane of run_app: its local `language` and the fields of
\* poem_state the pane is drawn from.
VARIABLES app_language, poem_state

view_vars == <<app_language, poem_state>>

\* The twinkles of the poem pane: poem_state.twinkles and
\* poem_state.twinkle_seed, the rectangle `inner` of the pane, the cells
\* render_twinkles wrote in the last frame, whether a remainder by zero
\* was taken, and how many frames were drawn and how often the pane was
\* resized.
VARIABLES twinkles, twinkle_seed, inner, pane, rem_by_zero, draws, resizes

twinkle_vars == <<twinkles, twinkle_seed, inner, pane, rem_by_zero, draws, resizes>>

poem_vars ==
    <<files, embedded, poem_library, lang, found, poem, poem_pc, view_vars,
      twinkle_vars>>

vars ==
    <<widget, area, art, buf, written, panicked, fit, fitted,
      lambda_moon, lambda_sun, status, pc, dt, app_vars, poem_vars>>

\* PoemLibrary::default()
EmptyLibrary == [l \in {Languages[i] : i \in 1 .. 5} |-> << >>]

\* placeholder_poem
placeholder_poem ==
    [title |-> "Moon", author |-> "", lines |-> <<"(no poems found)">>]

\* The date of the Unix epoch.
NoDate ==
    [year |-> 1970, month |-> 1, day |-> 1, hour |-> 0, minute |-> 0, second |-> 0]

\* A poem_state before reset_poem_fade, as run_app builds it.
NoPoemState ==
    [poem |-> placeholder_poem, line_fade |-> << >>, fade_idx |-> 0,
     fade_step |-> 0]

\* No pane, no twinkles.
TwinklesIdle ==
    /\ twinkles = << >>
    /\ twinkle_seed = <<0, 0, 0, 0, 0, 0, 0, 0>>
    /\ inner = [x |-> 0, y |-> 0, width |-> 0, height |-> 0]
    /\ pane = << >>
    /\ rem_by_zero = FALSE
    /\ draws = 0
    /\ resizes = 0

\* No poems loaded.
PoemsIdle ==
    /\ files = [l \in {Languages[i] : i \in 1 .. 5} |-> [ok |-> FALSE, entries |-> << >>]]
    /\ embedded = << >>
    /\ poem_library = EmptyLibrary
    /\ lang = "English"
    /\ found = << >>
    /\ poem = placeholder_poem
    /\ poem_pc = "idle"
    /\ app_language = "English"
    /\ poem_state = NoPoemState
    /\ TwinklesIdle

\* No frame drawn yet.
NoFrame == [date |-> 0, mode |-> "none"]

\* The program is not running.
AppIdle ==
    /\ PoemsIdle
    /\ dt = NoDate
    /\ app_pc = "idle"
    /\ args = [date |-> << >>, lines |-> << >>, refresh_minutes |-> 0,
               hide_dark |-> FALSE]
    /\ terminal_width = 0
    /\ date = 0
    /\ follow_now = FALSE
    /\ last_tick = 0
    /\ now = 0
    /\ needs_redraw = FALSE
    /\ show_poem = FALSE
    /\ event = "none"
    /\ raw_mode = FALSE
    /\ stdout = << >>
    /\ frame = NoFrame

\* The widgets render is called on.  The language is read by the label
\* overlay only, so the widgets without labels are taken in one language.
Widgets ==
    {w \in [phase_fraction : Phases, show_labels : BOOLEAN,
            language : {Languages[i] : i \in 1 .. 5},
            hide_dark : BOOLEAN, truecolor : BOOLEAN] :
        w.show_labels \/ w.language = "English"}

ClearedBuffer == [c \in BufCells |-> BlankCell]

\* No MoonStatus yet.
NoStatus ==
    [elongation_deg |-> R(0), phase_fraction |-> R(0), age_days |-> R(0),
     illumination |-> R(0), segment |-> 0, phase |-> "New"]

Init ==
    /\ widget \in Widgets
    /\ area \in Areas
    /\ art \in Textures
    /\ <<area, art, widget.phase_fraction>> \in RenderInputs
    /\ buf = ClearedBuffer
    /\ written = {}
    /\ panicked = FALSE
    /\ fit = NoFit
    /\ fitted = FALSE
    /\ lambda_moon = R(0)
    /\ lambda_sun = R(0)
    /\ status = NoStatus
    /\ pc = "call"
    /\ AppIdle

Render ==
    /\ pc = "call"
    /\ \E r \in {render(widget, area, art, buf)} :
           /\ buf' = r.st.buf
           /\ written' = r.st.written
           /\ panicked' = r.st.panicked
           /\ fit' = r.fit
           /\ fitted' = r.fitted
    /\ pc' = "done"
    /\ UNCHANGED <<widget, area, art, lambda_moon, lambda_sun, status, app_vars, poem_vars, dt>>

Next == Render

Spec == Init /\ [][Next]_vars

(***************************************************************************)
(* The state of the phase calculator: one call of calculate_moon_phase,    *)
(* taken from the two longitudes on.                                       *)
(***************************************************************************)
InitPhase ==
    /\ widget = [phase_fraction |-> PhaseNew, show_labels |-> FALSE,
                 language |-> "English", hide_dark |-> FALSE, truecolor |-> FALSE]
    /\ area = [x |-> 0, y |-> 0, width |-> 0, height |-> 0]
    /\ art = ArtEmptyLines
    /\ buf = ClearedBuffer
    /\ written = {}
    /\ panicked = FALSE
    /\ fit = NoFit
    /\ fitted = FALSE
    /\ lambda_moon \in Longitudes
    /\ lambda_sun \in Longitudes
    /\ status = NoStatus
    /\ pc = "calculate"
    /\ AppIdle

Calculate ==
    /\ pc = "calculate"
    /\ status' = MoonStatusOf(lambda_moon, lambda_sun)
    /\ pc' = "calculated"
    /\ UNCHANGED <<widget, area, art, buf, written, panicked, fit, fitted,
                   lambda_moon, lambda_sun, app_vars, poem_vars, dt>>

NextPhase == Calculate

SpecPhase == InitPhase /\ [][NextPhase]_vars

(***************************************************************************)
(* The frames of a run, cell by cell.  print_moon renders once into        *)
(* Buffer::empty(area).  The interactive loop draws a frame whenever       *)
(* needs_redraw is set, and every key, resize and date change sets it: so  *)
(* one event, then one frame.  The draw closure clears the whole frame     *)
(* and renders the widget of the present settings into the moon's part of  *)
(* the layout; the buffer is the one the terminal keeps between frames.    *)
(***************************************************************************)
\* f.size(): the whole buffer.
FrameSize == [x |-> 0, y |-> 0, width |-> BufW, height |-> BufH]

\* The Clear widget left out.
ClearNothing(b, rect) == b

\* `f.render_widget(Clear, f.size())`: every cell of rect is reset.
Clear(b, rect) ==
    [c \in BufCells |-> IF c \in AreaCells(rect) THEN BlankCell ELSE b[c]]

\* `(lines as f64 * aspect_ratio) as u16`, then `.min(terminal_width)`, and
\* Rect::new(0, 0, width, lines).
PrintArea(lines, columns) ==
    [x |-> 0, y |-> 0,
     width |-> Min(AsU16(RMul(R(lines), R(2))), columns),
     height |-> lines]

\* The areas print_moon renders into.
PrintAreas ==
    {PrintArea(lines, columns) :
        lines \in 0 .. MaxH, columns \in 0 .. MaxW + 1}

\* main_cols[0] of the draw closure, over the terminal sizes and layouts.
FrameAreas ==
    {a \in Areas : a.x = Margin /\ a.width >= MaxW - 1 /\ a.height >= MaxH - 1}

\* The widget print_moon builds: no labels, English.
PrintWidgets == {w \in Widgets : ~w.show_labels /\ w.language = "English"}

InitFrames ==
    /\ art \in Textures
    /\ \/ /\ pc = "print"
          /\ widget \in PrintWidgets
          /\ area \in PrintAreas
       \/ /\ pc = "draw"
          /\ widget \in PrintWidgets
          /\ area \in FrameAreas
    /\ <<area, art, widget.phase_fraction>> \in RenderInputs
    /\ buf = ClearedBuffer
    /\ written = {}
    /\ panicked = FALSE
    /\ fit = NoFit
    /\ fitted = FALSE
    /\ lambda_moon = R(0)
    /\ lambda_sun = R(0)
    /\ status = NoStatus
    /\ AppIdle

\* What a frame leaves: the render of widget into area on the buffer b.
Frame(b) ==
    \E r \in {render(widget, area, art, b)} :
        /\ buf' = r.st.buf
        /\ written' = r.st.written
        /\ panicked' = r.st.panicked
        /\ fit' = r.fit
        /\ fitted' = r.fitted

\* print_moon: `widget.render(area, &mut buffer)` on Buffer::empty(area).
PrintFrame ==
    /\ pc = "print"
    /\ Frame(ClearedBuffer)
    /\ pc' = "printed"
    /\ UNCHANGED <<widget, area, art, lambda_moon, lambda_sun, status, app_vars, poem_vars, dt>>

\* terminal.draw: Clear, then the moon widget.
DrawFrame ==
    /\ pc = "draw"
    /\ Frame(Clear(buf, FrameSize))
    /\ pc' = "event"
    /\ UNCHANGED <<widget, area, art, lambda_moon, lambda_sun, status, app_vars, poem_vars, dt>>

Redraw ==
    /\ pc' = "draw"
    /\ UNCHANGED <<art, buf, written, panicked, fit, fitted,
                   lambda_moon, lambda_sun, status, app_vars, poem_vars, dt>>

\* KeyCode::Char('l')
ToggleLabels ==
    /\ pc = "event"
    /\ widget' = [widget EXCEPT !.show_labels = ~@]
    /\ UNCHANGED area
    /\ Redraw

\* Language::next
next(language) == Languages[(LanguageIndex(language) % 5) + 1]

\* KeyCode::Char('L')
NextLanguage ==
    /\ pc = "event"
    /\ widget' = [widget EXCEPT !.language = next(@)]
    /\ UNCHANGED area
    /\ Redraw

\* KeyCode::Char('d')
ToggleHideDark ==
    /\ pc = "event"
    /\ widget' = [widget EXCEPT !.hide_dark = ~@]
    /\ UNCHANGED area
    /\ Redraw

\* Left, Right, 'n' and the timer tick: the date, and with it the phase.
ChangeDate ==
    /\ pc = "event"
    /\ \E p \in Phases :
           /\ <<area, art, p>> \in RenderInputs
           /\ widget' = [widget EXCEPT !.phase_fraction = p]
    /\ UNCHANGED area
    /\ Redraw

\* Event::Resize, 'i' and 'p': the layout, and with it the moon's area.
ChangeLayout ==
    /\ pc = "event"
    /\ \E a \in FrameAreas :
           /\ <<a, art, widget.phase_fraction>> \in RenderInputs
           /\ area' = a
    /\ UNCHANGED widget
    /\ Redraw

NextFrames ==
    \/ PrintFrame
    \/ DrawFrame
    \/ ToggleLabels
    \/ NextLanguage
    \/ ToggleHideDark
    \/ ChangeDate
    \/ ChangeLayout

SpecFrames == InitFrames /\ [][NextFrames]_vars

(***************************************************************************)
(* main and run_app: which date is shown, and when.  Instants are whole    *)
(* minutes on one clock, now, read by Utc::now() and Instant::now() alike; *)
(* a step of the program takes no time, and time passes while event::poll  *)
(* waits.  The display settings the keys l, L, i and d toggle are the      *)
(* matter of SpecFrames: here those keys ask for a redraw.  The moon of    *)
(* the date is not computed here: print mode renders some phase.           *)
(***************************************************************************)
\* Duration::days(1), in minutes.
Day == 1440

\* `and_hms_opt(12, 0, 0)`: midday, in minutes.
Noon == 720

\* ANIM_RATE, 120 ms, in whole minutes.
ANIM_RATE == 0

\* The poll timeout without auto-refresh, 250 ms, in whole minutes.
IdleTimeout == 0

\* A --date string: whether NaiveDate::parse_from_str accepts it, and the
\* day it names.
DateArgs == {[valid |-> TRUE, day |-> 0], [valid |-> FALSE, day |-> 0]}

\* Args::parse().  An Option is a sequence of at most one element.
ArgsSet ==
    [date : {<< >>} \cup {<<d>> : d \in DateArgs},
     lines : {<< >>} \cup {<<n>> : n \in 0 .. MaxH},
     refresh_minutes : 0 .. MaxRefresh,
     hide_dark : BOOLEAN]

\* The auto-refresh never off.
tick_rate_always == <<args.refresh_minutes>>

\* `let tick_rate = if refresh_minutes == 0 { None } else { Some(..) }`
tick_rate ==
    IF args.refresh_minutes = 0 THEN << >> ELSE <<args.refresh_minutes>>

\* The keys run_app tells apart, and any other key.
Keys == {"q", "Esc", "l", "L", "i", "d", "p", "P", "n", "Left", "Right", "other"}

\* What event::read() returns: a key press, a resize, or an event the loop
\* ignores (a key release, the mouse, focus, paste).
Events == Keys \cup {"Resize", "ignored"}

color_to_ansi_fg(color) ==
    CASE color = "Reset" -> "ESC[39m"
      [] color = "Red" -> "ESC[31m"
      [] color = "Cyan" -> "ESC[36m"
      [] color = "Rgb(232,208,88)" -> "ESC[38;2;232;208;88m"
      [] color = "Rgb(92,92,98)" -> "ESC[38;2;92;92;98m"
      [] color \in {"Indexed(214)", "Indexed(242)"} -> "ESC[39m"

\* last_fg when the loops of print_moon reach cell (x, y): Color::Reset at
\* first, and from then on the colour of the cell before it, in its row or
\* at the end of the row above, since every cell leaves last_fg = cell.fg.
last_fg(b, rect, x, y) ==
    IF x > 0 THEN b[<<x - 1, y>>].fg
    ELSE IF y > 0 THEN b[<<rect.width - 1, y - 1>>].fg
    ELSE "Reset"

\* The rows without the reset.
NoReset(b, rect) ==
    [y \in 1 .. rect.height |->
        [cells |-> [x \in 1 .. rect.width |->
                       [esc |-> IF b[<<x - 1, y - 1>>].fg # last_fg(b, rect, x - 1, y - 1)
                                THEN color_to_ansi_fg(b[<<x - 1, y - 1>>].fg)
                                ELSE "",
                        symbol |-> b[<<x - 1, y - 1>>].ch]],
         end |-> "\n"]]

\* What print_moon writes: for each row, each cell's escape sequence, if its
\* colour is not last_fg, and its symbol, then the reset and the newline.
Output(b, rect) ==
    [y \in 1 .. rect.height |->
        [cells |-> [x \in 1 .. rect.width |->
                       [esc |-> IF b[<<x - 1, y - 1>>].fg # last_fg(b, rect, x - 1, y - 1)
                                THEN color_to_ansi_fg(b[<<x - 1, y - 1>>].fg)
                                ELSE "",
                        symbol |-> b[<<x - 1, y - 1>>].ch]],
         end |-> "ESC[0m\n"]]

InitApp ==
    /\ app_pc = "main"
    /\ args \in ArgsSet
    /\ IF args.lines = << >>
       THEN /\ art = ArtEmptyLines
            /\ terminal_width = MaxW + 1
       ELSE /\ art \in Textures
            /\ terminal_width \in 0 .. MaxW + 1
    /\ widget = [phase_fraction |-> PhaseNew, show_labels |-> FALSE,
                 language |-> "English", hide_dark |-> FALSE, truecolor |-> FALSE]
    /\ area = [x |-> 0, y |-> 0, width |-> 0, height |-> 0]
    /\ buf = ClearedBuffer
    /\ written = {}
    /\ panicked = FALSE
    /\ fit = NoFit
    /\ fitted = FALSE
    /\ lambda_moon = R(0)
    /\ lambda_sun = R(0)
    /\ status = NoStatus
    /\ pc = "idle"
    /\ date = 0
    /\ follow_now = FALSE
    /\ last_tick = 0
    /\ now = 0
    /\ needs_redraw = FALSE
    /\ show_poem = FALSE
    /\ event = "none"
    /\ raw_mode = FALSE
    /\ stdout = << >>
    /\ frame = NoFrame
    /\ PoemsIdle
    /\ dt = NoDate

render_vars == <<widget, area, art, buf, written, panicked, fit, fitted>>

phase_vars == <<lambda_moon, lambda_sun, status, pc, dt>>

\* The Err of parse_from_str, returned by `?`.
MainFails ==
    /\ app_pc = "main"
    /\ args.date # << >>
    /\ ~args.date[1].valid
    /\ app_pc' = "failed"
    /\ UNCHANGED <<render_vars, phase_vars, poem_vars, args, terminal_width, date,
                   follow_now, last_tick, now, needs_redraw, show_poem, event,
                   raw_mode, stdout, frame>>

\* `let (date, follow_now) = match args.date`
StartDate == IF args.date = << >> THEN now ELSE args.date[1].day * Day + Noon

StartFollowNow == args.date = << >>

\* `return print_moon(lines, date, args.hide_dark)`
PrintMoon ==
    /\ app_pc = "main"
    /\ args.date # << >> => args.date[1].valid
    /\ args.lines # << >>
    /\ date' = StartDate
    /\ follow_now' = StartFollowNow
    /\ area' = PrintArea(args.lines[1], terminal_width)
    /\ \E p \in Phases, truecolor \in BOOLEAN :
           /\ <<area', art, p>> \in RenderInputs
           /\ widget' = [phase_fraction |-> p, show_labels |-> FALSE,
                         language |-> "English", hide_dark |-> args.hide_dark,
                         truecolor |-> truecolor]
    /\ \E r \in {render(widget', area', art, ClearedBuffer)} :
           /\ buf' = r.st.buf
           /\ written' = r.st.written
           /\ panicked' = r.st.panicked
           /\ fit' = r.fit
           /\ fitted' = r.fitted
           /\ stdout' = IF r.st.panicked THEN << >> ELSE Output(r.st.buf, area')
    /\ app_pc' = "exited"
    /\ UNCHANGED <<art, phase_vars, poem_vars, args, terminal_width, last_tick, now,
                   needs_redraw, show_poem, event, raw_mode, frame>>

\* enable_raw_mode, then run_app up to `loop`.
RunApp ==
    /\ app_pc = "main"
    /\ args.date # << >> => args.date[1].valid
    /\ args.lines = << >>
    /\ raw_mode' = TRUE
    /\ date' = StartDate
    /\ follow_now' = StartFollowNow
    /\ show_poem' = FALSE
    /\ last_tick' = now
    /\ needs_redraw' = TRUE
    /\ app_pc' = "draw"
    /\ UNCHANGED <<render_vars, phase_vars, poem_vars, args, terminal_width, now, event,
                   stdout, frame>>

\* The mode the info panel names.
mode == IF follow_now THEN "Now (auto)" ELSE "Manual"

\* The head of the loop: the poem animation, which asks for a redraw when
\* ANIM_RATE has passed, and terminal.draw.
Draw ==
    /\ app_pc = "draw"
    /\ \E animate \in (IF show_poem THEN BOOLEAN ELSE {FALSE}) :
           IF needs_redraw \/ animate
           THEN frame' = [date |-> date, mode |-> mode]
           ELSE UNCHANGED frame
    /\ needs_redraw' = FALSE
    /\ app_pc' = "tick"
    /\ UNCHANGED <<render_vars, phase_vars, poem_vars, args, terminal_width, date,
                   follow_now, last_tick, now, show_poem, event, raw_mode,
                   stdout>>

\* The tick moving the date in Manual mode too.
TickDateAlways == now

\* `if follow_now { date = Utc::now(); }`
TickDate == IF follow_now THEN now ELSE date

\* `last_tick.elapsed() >= tick_rate`
TickDue == tick_rate # << >> /\ now - last_tick >= tick_rate[1]

\* Timer tick.
Tick ==
    /\ app_pc = "tick"
    /\ IF TickDue
       THEN /\ last_tick' = now
            /\ date' = TickDate
            /\ needs_redraw' = TRUE
       ELSE UNCHANGED <<last_tick, date, needs_redraw>>
    /\ app_pc' = "poll"
    /\ UNCHANGED <<render_vars, phase_vars, poem_vars, args, terminal_width, follow_now,
                   now, show_poem, event, raw_mode, stdout, frame>>

\* `tick_rate.checked_sub(last_tick.elapsed()).unwrap_or(0)`, or 250 ms,
\* and at most ANIM_RATE while the poem shows.
timeout ==
    LET base == IF tick_rate # << >>
                THEN IF tick_rate[1] >= now - last_tick
                     THEN tick_rate[1] - (now - last_tick) ELSE 0
                ELSE IdleTimeout
    IN  IF show_poem THEN Min(base, ANIM_RATE) ELSE base

\* event::poll(timeout) and event::read(): the wait ends with an event or
\* with the timeout, within a minute of it.
Poll ==
    /\ app_pc = "poll"
    /\ \E wait \in 0 .. timeout + 1 :
           /\ now + wait <= MaxNow
           /\ now' = now + wait
           /\ \/ /\ wait >= timeout
                 /\ event' = "none"
                 /\ app_pc' = "draw"
              \/ \E e \in Events :
                     /\ event' = e
                     /\ app_pc' = "handle"
    /\ UNCHANGED <<render_vars, phase_vars, poem_vars, args, terminal_width, date,
                   follow_now, last_tick, needs_redraw, show_poem, raw_mode,
                   stdout, frame>>

\* The handler of the event in hand is over.
Handled ==
    /\ event' = "none"
    /\ UNCHANGED <<render_vars, phase_vars, poem_vars, args, terminal_width, now, stdout,
                   frame>>

\* 'q' and Esc: run_app returns, and main restores the terminal.
Quit ==
    /\ app_pc = "handle"
    /\ event \in {"q", "Esc"}
    /\ raw_mode' = FALSE
    /\ app_pc' = "exited"
    /\ Handled
    /\ UNCHANGED <<date, follow_now, last_tick, needs_redraw, show_poem>>

\* 'l', 'L', 'i', 'd' and Event::Resize.
KeyRedraw ==
    /\ app_pc = "handle"
    /\ event \in {"l", "L", "i", "d", "Resize"}
    /\ needs_redraw' = TRUE
    /\ app_pc' = "draw"
    /\ Handled
    /\ UNCHANGED <<date, follow_now, last_tick, show_poem, raw_mode>>

\* 'p'
TogglePoem ==
    /\ app_pc = "handle"
    /\ event = "p"
    /\ show_poem' = ~show_poem
    /\ needs_redraw' = TRUE
    /\ app_pc' = "draw"
    /\ Handled
    /\ UNCHANGED <<date, follow_now, last_tick, raw_mode>>

\* 'P'
NextPoem ==
    /\ app_pc = "handle"
    /\ event = "P"
    /\ needs_redraw' = (needs_redraw \/ show_poem)
    /\ app_pc' = "draw"
    /\ Handled
    /\ UNCHANGED <<date, follow_now, last_tick, show_poem, raw_mode>>

\* 'n'
KeyNow ==
    /\ app_pc = "handle"
    /\ event = "n"
    /\ follow_now' = TRUE
    /\ date' = now
    /\ last_tick' = now
    /\ needs_redraw' = TRUE
    /\ app_pc' = "draw"
    /\ Handled
    /\ UNCHANGED <<show_poem, raw_mode>>

\* KeyCode::Left
KeyLeft ==
    /\ app_pc = "handle"
    /\ event = "Left"
    /\ date - Day >= - MaxDays * Day
    /\ follow_now' = FALSE
    /\ date' = date - Day
    /\ needs_redraw' = TRUE
    /\ app_pc' = "draw"
    /\ Handled
    /\ UNCHANGED <<last_tick, show_poem, raw_mode>>

\* KeyCode::Right
KeyRight ==
    /\ app_pc = "handle"
    /\ event = "Right"
    /\ date + Day <= (MaxDays + 1) * Day
    /\ follow_now' = FALSE
    /\ date' = date + Day
    /\ needs_redraw' = TRUE
    /\ app_pc' = "draw"
    /\ Handled
    /\ UNCHANGED <<last_tick, show_poem, raw_mode>>

\* Any other key, and any other event.
Ignored ==
    /\ app_pc = "handle"
    /\ event \in {"other", "ignored"}
    /\ app_pc' = "draw"
    /\ Handled
    /\ UNCHANGED <<date, follow_now, last_tick, needs_redraw, show_poem,
                   raw_mode>>

NextApp ==
    \/ MainFails
    \/ PrintMoon
    \/ RunApp
    \/ Draw
    \/ Tick
    \/ Poll
    \/ Quit
    \/ KeyRedraw
    \/ TogglePoem
    \/ NextPoem
    \/ KeyNow
    \/ KeyLeft
    \/ KeyRight
    \/ Ignored

SpecApp == InitApp /\ [][NextApp]_vars

(***************************************************************************)
(* The poems (src/src/poems.rs): load_poems and pick_poem.  A text is the  *)
(* sequence of its lines, a directory the sequence of its entries as       *)
(* read_dir yields them, or one that cannot be read.                       *)
(***************************************************************************)
LanguageSet == {Languages[i] : i \in 1 .. 5}

\* str::trim, on the lines of the model's texts.
trim(line) ==
    CASE line = " " -> ""
      [] line = " --- " -> "---"
      [] line = "verse<CR>" -> "verse"
      [] OTHER -> line

\* `l.trim_end_matches('\r')`
trim_end_cr(line) == IF line = "verse<CR>" THEN "verse" ELSE line

\* `while body.last().is_some_and(|s| s.trim().is_empty()) { body.pop(); }`
TrimTrailing(body) ==
    LET keep == {n \in 0 .. Len(body) : n = 0 \/ trim(body[n]) # ""}
    IN  SubSeq(body, 1, SetMax(keep))

\* The loop of parse_poem_text over the lines after the author's: the
\* first of them is skipped when it is the separator.
Body(text) ==
    LET rest == [i \in 1 .. Len(text) - 2 |-> trim_end_cr(text[i + 2])]
    IN  TrimTrailing(IF Len(rest) > 0 /\ trim(rest[1]) = "---"
                     THEN Tail(rest) ELSE rest)

\* parse_poem_text: None is << >>, Some(poem) is <<poem>>.
parse_poem_text(text) ==
    IF Len(text) = 0 THEN << >>
    ELSE LET title == trim(text[1])
             author == IF Len(text) >= 2 THEN trim(text[2]) ELSE ""
             body == Body(text)
         IN  IF title = "" \/ body = << >> THEN << >>
             ELSE <<[title |-> title, author |-> author, lines |-> body]>>

\* A directory entry: its extension, whether read_to_string succeeds, and
\* its text.
Entry(txt, readable, text) == [txt |-> txt, readable |-> readable, text |-> text]

\* The texts of the model: two poems, PoemA with a separator, a carriage
\* return and blank lines at its end, PoemB the very text of the
\* placeholder; and texts that are no poem, for having no line or no body.
PoemA == <<"Title", "Author", " --- ", "verse<CR>", "", "verse", " ", "">>

PoemB == <<"Moon", "", "(no poems found)">>

\* The directories of one language: none, an empty one, and those of one
\* and two entries that tell the cases of load_poems_from_dir apart.
Dirs ==
    {[ok |-> FALSE, entries |-> << >>],
     [ok |-> TRUE, entries |-> << >>],
     [ok |-> TRUE, entries |-> <<Entry(TRUE, TRUE, PoemB)>>],
     [ok |-> TRUE, entries |-> <<Entry(FALSE, TRUE, PoemA), Entry(TRUE, FALSE, PoemA)>>],
     [ok |-> TRUE, entries |-> <<Entry(TRUE, TRUE, <<"Title">>), Entry(TRUE, TRUE, PoemA)>>],
     [ok |-> TRUE, entries |-> <<Entry(TRUE, TRUE, PoemA), Entry(TRUE, TRUE, PoemB)>>]}

\* The texts `defaults` embeds, each with its language: the poem files of
\* the repository, whatever they hold.
EmbeddedSets ==
    {<<<<"English", PoemA>>, <<"English", PoemB>>, <<"Chinese", PoemA>>,
       <<"French", PoemB>>, <<"Japanese", PoemA>>, <<"Spanish", PoemA>>>>,
     <<<<"English", PoemA>>, <<"Chinese", <<"Title">>>>, <<"Chinese", PoemB>>,
       <<"Japanese", << >>>>, <<"Spanish", PoemB>>, <<"Spanish", PoemA>>>>}

\* The poems of the texts that parse, in order.
Parsed(texts) ==
    LET poems == SelectSeq(texts, LAMBDA t : parse_poem_text(t) # << >>)
    IN  [i \in 1 .. Len(poems) |-> parse_poem_text(poems[i])[1]]

\* load_poems_from_dir
load_poems_from_dir(fs) ==
    [l \in LanguageSet |->
        IF ~fs[l].ok THEN << >>
        ELSE LET read == SelectSeq(fs[l].entries, LAMBDA e : e.txt /\ e.readable)
             IN  Parsed([i \in 1 .. Len(read) |-> read[i].text])]

\* default_poems
default_poems(defaults) ==
    [l \in LanguageSet |->
        LET mine == SelectSeq(defaults, LAMBDA d : d[1] = l)
        IN  Parsed([i \in 1 .. Len(mine) |-> mine[i][2]])]

\* The built-in poems kept beside those of the directory.
load_poems_both(fs, defaults) ==
    [l \in LanguageSet |->
        load_poems_from_dir(fs)[l] \o default_poems(defaults)[l]]

\* load_poems
load_poems(fs, defaults) ==
    [l \in LanguageSet |->
        IF load_poems_from_dir(fs)[l] # << >>
        THEN load_poems_from_dir(fs)[l]
        ELSE default_poems(defaults)[l]]

InitPoems ==
    /\ files \in [LanguageSet -> Dirs]
    /\ embedded \in EmbeddedSets
    /\ poem_library = EmptyLibrary
    /\ lang = "English"
    /\ found = << >>
    /\ poem = placeholder_poem
    /\ poem_pc = "load"
    /\ app_language = "English"
    /\ poem_state = NoPoemState
    /\ TwinklesIdle
    /\ widget = [phase_fraction |-> PhaseNew, show_labels |-> FALSE,
                 language |-> "English", hide_dark |-> FALSE, truecolor |-> FALSE]
    /\ area = [x |-> 0, y |-> 0, width |-> 0, height |-> 0]
    /\ art = ArtEmptyLines
    /\ buf = ClearedBuffer
    /\ written = {}
    /\ panicked = FALSE
    /\ fit = NoFit
    /\ fitted = FALSE
    /\ lambda_moon = R(0)
    /\ lambda_sun = R(0)
    /\ status = NoStatus
    /\ pc = "idle"
    /\ dt = NoDate
    /\ app_pc = "idle"
    /\ args = [date |-> << >>, lines |-> << >>, refresh_minutes |-> 0,
               hide_dark |-> FALSE]
    /\ terminal_width = 0
    /\ date = 0
    /\ follow_now = FALSE
    /\ last_tick = 0
    /\ now = 0
    /\ needs_redraw = FALSE
    /\ show_poem = FALSE
    /\ event = "none"
    /\ raw_mode = FALSE
    /\ stdout = << >>
    /\ frame = NoFrame

\* `let poem_library = poems::load_poems(poems_dir.as_deref())`
LoadPoems ==
    /\ poem_pc = "load"
    /\ poem_library' = load_poems(files, embedded)
    /\ poem_pc' = "loaded"
    /\ UNCHANGED <<render_vars, phase_vars, app_vars, files, embedded, lang,
                   found, poem, view_vars, twinkle_vars>>

\* pick_poem(&poem_library, language): random_poem chooses any poem of the
\* language, or finds none, and then the placeholder is the poem.
PickPoem ==
    /\ poem_pc = "loaded"
    /\ \E l \in LanguageSet :
           /\ lang' = l
           /\ \E f \in IF poem_library[l] = << >> THEN {<< >>}
                       ELSE {<<poem_library[l][i]>> : i \in 1 .. Len(poem_library[l])} :
                  /\ found' = f
                  /\ poem' = IF f = << >> THEN placeholder_poem ELSE f[1]
    /\ poem_pc' = "picked"
    /\ UNCHANGED <<render_vars, phase_vars, app_vars, files, embedded,
                   poem_library, view_vars, twinkle_vars>>

NextPoems ==
    \/ LoadPoems
    \/ PickPoem

SpecPoems == InitPoems /\ [][NextPoems]_vars

(***************************************************************************)
(* calculate_moon_phase from the date on.  Between the date and the two    *)
(* longitudes no rounding decides anything, and the angles are computed    *)
(* in fixed point: in thousandths of a degree, the products of a rate and  *)
(* a time rounded down, the sines taken from the fixed-point cosine.  At   *)
(* the dates of the model the error is some hundredths of a degree.        *)
(***************************************************************************)
\* A thousandth of a degree is the unit; a turn.
Turn == 360000

\* Utc.with_ymd_and_hms(..).timestamp(): the days from 1970-01-01 to the
\* civil date, and the seconds of the day.
DaysFromCivil(y, m, d) ==
    LET yy == IF m <= 2 THEN y - 1 ELSE y
        era == yy \div 400
        yoe == yy - era * 400
        mp == (m + 9) % 12
        doy == (153 * mp + 2) \div 5 + d - 1
        doe == yoe * 365 + yoe \div 4 - yoe \div 100 + doy
    IN  era * 146097 + doe - 719468

timestamp(t) ==
    DaysFromCivil(t.year, t.month, t.day) * 86400
        + t.hour * 3600 + t.minute * 60 + t.second

\* The Julian day of the Unix epoch taken a day late.
UnixEpochADayLate == 946728000 - 86400

\* `unix / 86400.0 + 2440587.5` and `jd - 2451545.0`: J2000.0 is 10957.5
\* days after the Unix epoch, in seconds.
J2000 == 946728000

\* d, as whole days and the seconds over.
DaysSinceJ2000(t) ==
    [days |-> (timestamp(t) - J2000) \div 86400,
     seconds |-> (timestamp(t) - J2000) % 86400]

\* normalize_degrees of an angle in thousandths.
NormalizeMilli(a) == a % Turn

\* normalize_degrees(base + rate * d): base in thousandths of a degree, rate
\* in units of 1e-7 degrees a day.
MeanAngle(base, rate, d) ==
    LET milli == rate \div 10000
        rest == rate % 10000
    IN  NormalizeMilli(base + milli * d.days + (rest * d.days) \div 10000
                        + (milli * (d.seconds \div 60)) \div 1440
                        + (milli * (d.seconds % 60)) \div 86400)

\* deg_to_rad of an angle 0 .. Turn in thousandths, in units of 2^-CosBits.
RadFixed(a) ==
    ((a \div 1000) * CosPi) \div 180 + ((a % 1000) * CosPi) \div 180000

\* coefficient * deg_to_rad(a).sin(), coefficient and result in thousandths
\* of a degree: sin(a) = cos(a - 90).
SinTerm(coefficient, a) ==
    LET sin == CosFixed(RadFixed(NormalizeMilli(a - 90000)))
    IN  (2 * coefficient * sin + CosOne) \div (2 * CosOne)

\* lambda_sun
LambdaSun(d) ==
    LET l0 == MeanAngle(280460, 9856474, d)
        g == MeanAngle(357528, 9856003, d)
    IN  NormalizeMilli(l0 + SinTerm(1915, g) + SinTerm(20, 2 * g))

\* lambda_moon
LambdaMoon(d) ==
    LET g == MeanAngle(357528, 9856003, d)
        l == MeanAngle(218316, 131763960, d)
        mm == MeanAngle(134963, 130649930, d)
        d_moon == MeanAngle(297850, 121907490, d)
        f == MeanAngle(93272, 132293500, d)
    IN  NormalizeMilli(l + SinTerm(6289, mm)
                         + SinTerm(1274, 2 * d_moon - mm)
                         + SinTerm(658, 2 * d_moon)
                         + SinTerm(214, 2 * mm)
                         - SinTerm(186, g)
                         - SinTerm(59, 2 * d_moon - 2 * mm)
                         - SinTerm(57, 2 * d_moon - mm - g)
                         + SinTerm(53, 2 * d_moon + mm)
                         + SinTerm(46, 2 * d_moon - g)
                         + SinTerm(41, mm - g)
                         - SinTerm(35, d_moon)
                         - SinTerm(31, mm + g)
                         - SinTerm(15, 2 * f - 2 * d_moon)
                         + SinTerm(11, 2 * d_moon - 4 * mm))

\* The rest of calculate_moon_phase, from the longitudes in thousandths of
\* a degree: the illumination in thousandths of a percent.
MoonStatusFixed(lm, ls) ==
    LET elongation == NormalizeMilli(lm - ls)
        segment == ((8 * elongation + Turn \div 2) \div Turn) % 8
    IN  [elongation_deg |-> <<elongation, 1000>>,
         phase_fraction |-> <<elongation, Turn>>,
         age_days |-> <<(elongation \div 100) * 2953, 360000>>,
         illumination |->
             <<(50000 * (CosOne - CosFixed(RadFixed(elongation)))) \div CosOne, 1000>>,
         segment |-> segment,
         phase |-> PhaseOfSegment(segment)]

Instant(year, month, day, hour, minute, second) ==
    [year |-> year, month |-> month, day |-> day,
     hour |-> hour, minute |-> minute, second |-> second]

\* The dates of the model: the two of the tests, and December 2025 by the
\* quarter of a day.
Instants ==
    {Instant(2025, 12, 13, 4, 46, 50), Instant(2025, 12, 4, 23, 14, 0)}
        \cup {Instant(2025, 12, day, hour, 0, 0) :
                 day \in 1 .. 31, hour \in {0, 6, 12, 18}}

InitMeeus ==
    /\ dt \in Instants
    /\ lambda_moon = R(0)
    /\ lambda_sun = R(0)
    /\ status = NoStatus
    /\ pc = "date"
    /\ widget = [phase_fraction |-> PhaseNew, show_labels |-> FALSE,
                 language |-> "English", hide_dark |-> FALSE, truecolor |-> FALSE]
    /\ area = [x |-> 0, y |-> 0, width |-> 0, height |-> 0]
    /\ art = ArtEmptyLines
    /\ buf = ClearedBuffer
    /\ written = {}
    /\ panicked = FALSE
    /\ fit = NoFit
    /\ fitted = FALSE
    /\ PoemsIdle
    /\ app_pc = "idle"
    /\ args = [date |-> << >>, lines |-> << >>, refresh_minutes |-> 0,
               hide_dark |-> FALSE]
    /\ terminal_width = 0
    /\ date = 0
    /\ follow_now = FALSE
    /\ last_tick = 0
    /\ now = 0
    /\ needs_redraw = FALSE
    /\ show_poem = FALSE
    /\ event = "none"
    /\ raw_mode = FALSE
    /\ stdout = << >>
    /\ frame = NoFrame

\* calculate_moon_phase(dt)
CalculateAt ==
    /\ pc = "date"
    /\ lambda_moon' = <<LambdaMoon(DaysSinceJ2000(dt)), 1000>>
    /\ lambda_sun' = <<LambdaSun(DaysSinceJ2000(dt)), 1000>>
    /\ status' = MoonStatusFixed(lambda_moon'[1], lambda_sun'[1])
    /\ pc' = "dated"
    /\ UNCHANGED <<render_vars, app_vars, poem_vars, dt>>

NextMeeus == CalculateAt

SpecMeeus == InitMeeus /\ [][NextMeeus]_vars

(***************************************************************************)
(* The poem pane of run_app: the language, whether the pane is shown, the  *)
(* poem and its fade-in.  One turn of the loop is the animation step, the  *)
(* draw and one event.  The date, the moon and the twinkles of the pane    *)
(* are left to the other specifications.                                   *)
(***************************************************************************)

\* const LINE_FADE_STEPS: u8 = 6
LINE_FADE_STEPS == 6

\* u8::MAX, where saturating_add stops.
U8_MAX == 255

\* A poem of n lines.
Verses(title, n) ==
    [title |-> title, author |-> "", lines |-> [i \in 1 .. n |-> "verse"]]

\* The libraries load_poems may return: no language shares a poem with
\* another, and some languages have none.
ViewLibraries ==
    {[EmptyLibrary EXCEPT !["English"] = <<Verses("Dawn", 1), Verses("Dusk", 2)>>,
                          !["Chinese"] = <<Verses("Yue", 3)>>,
                          !["Japanese"] = <<Verses("Tsuki", 2)>>],
     [EmptyLibrary EXCEPT !["Spanish"] = <<Verses("Luna", 1)>>]}

\* pick_poem: any poem of the language, the placeholder when it has none.
pick_poem(lib, l) ==
    IF lib[l] = << >> THEN {placeholder_poem}
    ELSE {lib[l][i] : i \in 1 .. Len(lib[l])}

\* The fade indices reset, the levels left as they were.
reset_poem_fade_keeps_levels(state) ==
    [state EXCEPT !.fade_idx = 0, !.fade_step = 0]

\* reset_poem_fade
reset_poem_fade(state) ==
    [state EXCEPT !.line_fade = [i \in 1 .. Len(state.poem.lines) |-> 0],
                  !.fade_idx = 0,
                  !.fade_step = 0]

\* The block the 'L', 'p' and 'P' arms share: a poem picked for the
\* language, then reset_poem_fade.
NewPoem(state, l) ==
    {reset_poem_fade([state EXCEPT !.poem = p]) : p \in pick_poem(poem_library, l)}

\* The fade of the current line advanced by one step.
AdvanceFade(state) ==
    IF state.fade_idx < Len(state.poem.lines)
    THEN LET step == Min(state.fade_step + 1, U8_MAX)
             level == Min(step, LINE_FADE_STEPS)
             faded == IF state.fade_idx < Len(state.line_fade)
                      THEN [state.line_fade EXCEPT ![state.fade_idx + 1] = level]
                      ELSE state.line_fade
         IN  IF step >= LINE_FADE_STEPS
             THEN [state EXCEPT !.line_fade = faded,
                                !.fade_idx = state.fade_idx + 1,
                                !.fade_step = 0]
             ELSE [state EXCEPT !.line_fade = faded, !.fade_step = step]
    ELSE state

\* The locals of run_app and the variables of the other specifications
\* that the poem pane leaves alone.
view_rest ==
    <<render_vars, phase_vars, app_pc, args, terminal_width, date, follow_now,
      last_tick, now, event, raw_mode, stdout, frame, files, embedded,
      poem_library, lang, found, poem, twinkle_vars>>

InitPoemView ==
    /\ poem_library \in ViewLibraries
    /\ poem_pc = "run_app"
    /\ app_language = "English"
    /\ poem_state = NoPoemState
    /\ TwinklesIdle
    /\ show_poem = FALSE
    /\ needs_redraw = FALSE
    /\ files = [l \in LanguageSet |-> [ok |-> FALSE, entries |-> << >>]]
    /\ embedded = << >>
    /\ lang = "English"
    /\ found = << >>
    /\ poem = placeholder_poem
    /\ widget = [phase_fraction |-> PhaseNew, show_labels |-> FALSE,
                 language |-> "English", hide_dark |-> FALSE, truecolor |-> FALSE]
    /\ area = [x |-> 0, y |-> 0, width |-> 0, height |-> 0]
    /\ art = ArtEmptyLines
    /\ buf = ClearedBuffer
    /\ written = {}
    /\ panicked = FALSE
    /\ fit = NoFit
    /\ fitted = FALSE
    /\ lambda_moon = R(0)
    /\ lambda_sun = R(0)
    /\ status = NoStatus
    /\ pc = "idle"
    /\ dt = NoDate
    /\ app_pc = "idle"
    /\ args = [date |-> << >>, lines |-> << >>, refresh_minutes |-> 0,
               hide_dark |-> FALSE]
    /\ terminal_width = 0
    /\ date = 0
    /\ follow_now = FALSE
    /\ last_tick = 0
    /\ now = 0
    /\ event = "none"
    /\ raw_mode = FALSE
    /\ stdout = << >>
    /\ frame = NoFrame

\* run_app up to `loop`: the pane hidden, English, a poem picked and its
\* fade reset.
StartPoemView ==
    /\ poem_pc = "run_app"
    /\ app_language' = "English"
    /\ show_poem' = FALSE
    /\ poem_state' \in NewPoem(NoPoemState, "English")
    /\ needs_redraw' = TRUE
    /\ poem_pc' = "animate"
    /\ UNCHANGED view_rest

\* The animation step at the top of the loop; whether ANIM_RATE has
\* elapsed is the clock's choice.
Animate ==
    /\ poem_pc = "animate"
    /\ \E elapsed \in BOOLEAN :
           IF show_poem /\ elapsed
           THEN /\ poem_state' = AdvanceFade(poem_state)
                /\ needs_redraw' = TRUE
           ELSE UNCHANGED <<poem_state, needs_redraw>>
    /\ poem_pc' = "draw"
    /\ UNCHANGED <<view_rest, app_language, show_poem>>

\* `if needs_redraw { terminal.draw(...)?; needs_redraw = false; }`
DrawView ==
    /\ poem_pc = "draw"
    /\ needs_redraw' = FALSE
    /\ poem_pc' = "poll"
    /\ UNCHANGED <<view_rest, view_vars, show_poem>>

\* 'L' re-picks the poem whenever the pane is shown.
LanguageRepicksNever == FALSE

\* 'L': `if show_poem`
LanguageRepicks == show_poem

\* 'L'
KeyLanguage ==
    /\ poem_pc = "poll"
    /\ app_language' = next(app_language)
    /\ poem_state' \in IF LanguageRepicks
                       THEN NewPoem(poem_state, next(app_language))
                       ELSE {poem_state}
    /\ needs_redraw' = TRUE
    /\ poem_pc' = "animate"
    /\ UNCHANGED <<view_rest, show_poem>>

\* 'p'
KeyPoem ==
    /\ poem_pc = "poll"
    /\ show_poem' = ~show_poem
    /\ poem_state' \in IF ~show_poem
                       THEN NewPoem(poem_state, app_language)
                       ELSE {poem_state}
    /\ needs_redraw' = TRUE
    /\ poem_pc' = "animate"
    /\ UNCHANGED <<view_rest, app_language>>

\* 'P'
KeyNextPoem ==
    /\ poem_pc = "poll"
    /\ IF show_poem
       THEN /\ poem_state' \in NewPoem(poem_state, app_language)
            /\ needs_redraw' = TRUE
       ELSE UNCHANGED <<poem_state, needs_redraw>>
    /\ poem_pc' = "animate"
    /\ UNCHANGED <<view_rest, app_language, show_poem>>

\* The keys and the resize that ask for a redraw and leave the pane alone.
KeyElse ==
    /\ poem_pc = "poll"
    /\ needs_redraw' = TRUE
    /\ poem_pc' = "animate"
    /\ UNCHANGED <<view_rest, view_vars, show_poem>>

\* No event within the timeout, or one that is ignored.
NoKey ==
    /\ poem_pc = "poll"
    /\ poem_pc' = "animate"
    /\ UNCHANGED <<view_rest, view_vars, show_poem, needs_redraw>>

\* 'q' or Esc
QuitView ==
    /\ poem_pc = "poll"
    /\ poem_pc' = "exited"
    /\ UNCHANGED <<view_rest, view_vars, show_poem, needs_redraw>>

NextPoemView ==
    \/ StartPoemView
    \/ Animate
    \/ DrawView
    \/ KeyLanguage
    \/ KeyPoem
    \/ KeyNextPoem
    \/ KeyElse
    \/ NoKey
    \/ QuitView

SpecPoemView == InitPoemView /\ [][NextPoemView]_vars

(***************************************************************************)
(* The twinkles of the poem pane: each frame lays the pane out, renders    *)
(* the block and the poem, then calls update_twinkles and render_twinkles  *)
(* on the inner rectangle.  The seed is a u64 kept as its eight bytes,     *)
(* least significant first, so that lcg_next_u32 is computed exactly.      *)
(***************************************************************************)

\* The frames drawn in a run.
MaxDraws == 31

\* The changes of the pane's size in a run.
MaxResizes == 1

\* 6364136223846793005
LcgMultiplier == <<45, 127, 149, 76, 45, 244, 81, 88>>

\* 1442695040888963407
LcgIncrement == <<79, 129, 103, 247, 126, 123, 5, 20>>

\* Byte k of seed * multiplier + increment before the carries.
LcgColumn(seed, k) ==
    LET sum[i \in 0 .. k] ==
            IF i = 0 THEN LcgIncrement[k]
            ELSE sum[i - 1] + seed[i] * LcgMultiplier[k + 1 - i]
    IN  sum[k]

\* The carry out of byte k.
LcgCarry(seed, k) ==
    LET carry[i \in 0 .. k] ==
            IF i = 0 THEN 0 ELSE (LcgColumn(seed, i) + carry[i - 1]) \div 256
    IN  carry[k]

\* Byte k of seed * multiplier + increment.
LcgByte(seed, k) == (LcgColumn(seed, k) + LcgCarry(seed, k - 1)) % 256

\* lcg_next_u32: the seed after wrapping_mul and wrapping_add.  The value
\* returned is its upper half, bytes 5 to 8.
lcg_next_u32(seed) ==
    <<LcgByte(seed, 1), LcgByte(seed, 2), LcgByte(seed, 3), LcgByte(seed, 4),
      LcgByte(seed, 5), LcgByte(seed, 6), LcgByte(seed, 7), LcgByte(seed, 8)>>

\* `lcg_next_u32(seed) as u16`
LowU16(seed) == seed[5] + 256 * seed[6]

\* `lcg_next_u32(seed) % 4`, also the one taken `as usize`
Low2Bits(seed) == seed[5] % 4

\* The seeds rand::random::<u64>() gives.
Seeds == {<<1, 0, 0, 0, 0, 0, 0, 0>>, <<239, 205, 171, 137, 103, 69, 35, 1>>}

\* update_twinkles never finds the area too small.
TooSmallNever(rect) == FALSE

\* `area.width < 6 || area.height < 6`
TooSmall(rect) == rect.width < 6 \/ rect.height < 6

\* saturating_sub on u16
SaturatingSub(a, b) == IF a > b THEN a - b ELSE 0

\* The decay loop and the retain of update_twinkles.
Decay(tw, rect) ==
    SelectSeq([i \in 1 .. Len(tw) |->
                  [x |-> Min(tw[i].x, SaturatingSub(rect.width, 1)),
                   y |-> Min(tw[i].y, SaturatingSub(rect.height, 1)),
                   ttl |-> SaturatingSub(tw[i].ttl, 1),
                   kind |-> tw[i].kind]],
              LAMBDA t : t.ttl > 0)

\* The seeds of n draws more, after those of `run`.
RECURSIVE LcgRun(_, _)
LcgRun(run, n) ==
    IF n = 0 THEN run
    ELSE LcgRun(Append(run, lcg_next_u32(run[Len(run)])), n - 1)

\* The twinkle made of the four draws of `run`, which starts at the seed
\* before them.
Drawn(run, rect) ==
    [x |-> 1 + (LowU16(run[2]) % SaturatingSub(rect.width, 2)),
     y |-> 1 + (LowU16(run[3]) % SaturatingSub(rect.height, 2)),
     ttl |-> 28 + (LowU16(run[4]) % 26),
     kind |-> Low2Bits(run[5])]

\* One turn of the while loop of update_twinkles: four draws, one twinkle.
Pushed(tw, run, rect) ==
    [twinkles |-> Append(tw, Drawn(run, rect)), seed |-> run[5]]

Push(tw, seed, rect) == Pushed(tw, LcgRun(<<seed>>, 4), rect)

\* The while loop of update_twinkles.  A remainder by zero panics.
RECURSIVE Spawn(_, _, _, _)
Spawn(tw, seed, target, rect) ==
    IF Len(tw) >= target
    THEN [twinkles |-> tw, seed |-> seed, rem_by_zero |-> FALSE]
    ELSE IF SaturatingSub(rect.width, 2) = 0 \/ SaturatingSub(rect.height, 2) = 0
    THEN [twinkles |-> tw, seed |-> lcg_next_u32(seed), rem_by_zero |-> TRUE]
    ELSE CHOOSE r \in {Spawn(n.twinkles, n.seed, target, rect) :
                          n \in {Push(tw, seed, rect)}} : TRUE

\* clamp
Clamp(v, lo, hi) == IF v < lo THEN lo ELSE IF v > hi THEN hi ELSE v

\* update_twinkles
update_twinkles(tw, seed, rect) ==
    IF TooSmall(rect)
    THEN [twinkles |-> << >>, seed |-> seed, rem_by_zero |-> FALSE]
    ELSE LET cells == rect.width * rect.height
             base == Clamp(cells \div 90, 10, 22)
         IN  CHOOSE r \in {Spawn(d, n, base + Low2Bits(n), rect) :
                              d \in {Decay(tw, rect)}, n \in {lcg_next_u32(seed)}} : TRUE

\* The lines render_poem_lines_soft gives for a poem of two lines, both
\* faded in: the title, no author, an empty line, the body.
PaneText ==
    << <<"M", "o", "o", "n">>, << >>, << >>,
       <<"O", " ", "m", "o", "o", "n">>, <<"s", "o", " ", "f", "a", "r">> >>

\* The cell of the frame at c once the block and the paragraph are
\* rendered: the text from the top left of `inner`, a cell per character,
\* the border around `inner`, blank elsewhere.  No line is longer than the
\* narrowest pane that has twinkles, so none wraps there; in a narrower
\* pane, where there are no twinkles, a line is cut.
Paragraph(rect, c) ==
    LET col == c[1] - Left(rect)
        row == c[2] - Top(rect)
    IN  IF col \in 0 .. rect.width - 1 /\ row \in 0 .. rect.height - 1
        THEN IF row < Len(PaneText) /\ col < Len(PaneText[row + 1])
             THEN [symbol |-> PaneText[row + 1][col + 1],
                   fg |-> IF row = 0 THEN "title" ELSE "body"]
             ELSE [symbol |-> " ", fg |-> "dim"]
        ELSE IF col \in -1 .. rect.width /\ row \in -1 .. rect.height
        THEN [symbol |-> "border", fg |-> "title"]
        ELSE [symbol |-> " ", fg |-> "Reset"]

\* twinkle_char
twinkle_char(kind) ==
    CASE kind % 4 = 0 -> "U+00B7"
      [] kind % 4 = 1 -> "U+22C5"
      [] kind % 4 = 2 -> "."
      [] OTHER -> "U+02D9"

\* The cell of the frame at c, b being the cells written over the
\* paragraph.
CellAt(b, rect, c) == IF c \in DOMAIN b THEN b[c] ELSE Paragraph(rect, c)

\* A twinkle is drawn whatever the cell holds.
OnBlankAlways(symbol) == TRUE

\* `buf.get(x, y).symbol() != " "` is the `continue`
OnBlank(symbol) == symbol = " "

\* The body of the loop of render_twinkles for the twinkle t.
RenderTwinkle(b, rect, t) ==
    LET x == Left(rect) + t.x
        y == Top(rect) + t.y
    IN  IF \/ x <= Left(rect)
           \/ x + 1 >= Right(rect)
           \/ y <= Top(rect)
           \/ y + 1 >= Bottom(rect)
        THEN b
        ELSE IF ~OnBlank(CellAt(b, rect, <<x, y>>).symbol)
        THEN b
        ELSE [c \in DOMAIN b \cup {<<x, y>>} |->
                 IF c = <<x, y>>
                 THEN [symbol |-> twinkle_char(t.kind), fg |-> "dim"]
                 ELSE b[c]]

\* render_twinkles from twinkle i on.
RECURSIVE render_twinkles(_, _, _, _)
render_twinkles(b, rect, tw, i) ==
    IF i > Len(tw) THEN b
    ELSE CHOOSE r \in {render_twinkles(n, rect, tw, i + 1) :
                          n \in {RenderTwinkle(b, rect, tw[i])}} : TRUE

\* The rectangles block.inner(main_cols[1]) gives over the terminal sizes.
PaneAreas ==
    {[x |-> 3, y |-> 2, width |-> s[1], height |-> s[2]] :
        s \in {<<1, 7>>, <<2, 7>>, <<5, 8>>, <<6, 6>>, <<12, 7>>, <<45, 22>>,
               <<60, 33>>}}

InitTwinkles ==
    /\ inner \in PaneAreas
    /\ twinkle_seed \in Seeds
    /\ twinkles = << >>
    /\ pane = << >>
    /\ rem_by_zero = FALSE
    /\ draws = 0
    /\ resizes = 0
    /\ poem_library = EmptyLibrary
    /\ poem_pc = "idle"
    /\ app_language = "English"
    /\ poem_state = NoPoemState
    /\ show_poem = TRUE
    /\ needs_redraw = TRUE
    /\ files = [l \in LanguageSet |-> [ok |-> FALSE, entries |-> << >>]]
    /\ embedded = << >>
    /\ lang = "English"
    /\ found = << >>
    /\ poem = placeholder_poem
    /\ widget = [phase_fraction |-> PhaseNew, show_labels |-> FALSE,
                 language |-> "English", hide_dark |-> FALSE, truecolor |-> FALSE]
    /\ area = [x |-> 0, y |-> 0, width |-> 0, height |-> 0]
    /\ art = ArtEmptyLines
    /\ buf = ClearedBuffer
    /\ written = {}
    /\ panicked = FALSE
    /\ fit = NoFit
    /\ fitted = FALSE
    /\ lambda_moon = R(0)
    /\ lambda_sun = R(0)
    /\ status = NoStatus
    /\ pc = "idle"
    /\ dt = NoDate
    /\ app_pc = "idle"
    /\ args = [date |-> << >>, lines |-> << >>, refresh_minutes |-> 0,
               hide_dark |-> FALSE]
    /\ terminal_width = 0
    /\ date = 0
    /\ follow_now = FALSE
    /\ last_tick = 0
    /\ now = 0
    /\ event = "none"
    /\ raw_mode = FALSE
    /\ stdout = << >>
    /\ frame = NoFrame

\* The poem pane of one frame: the layout gives `inner`, and when it is at
\* least 2 by 2 the paragraph is rendered, update_twinkles is called and
\* then render_twinkles.
DrawPane ==
    /\ draws < MaxDraws
    /\ ~rem_by_zero
    /\ \E r \in IF resizes < MaxResizes THEN PaneAreas ELSE {inner} :
           /\ inner' = r
           /\ resizes' = IF r = inner THEN resizes ELSE resizes + 1
           /\ IF r.width >= 2 /\ r.height >= 2
              THEN \E u \in {update_twinkles(twinkles, twinkle_seed, r)} :
                       /\ twinkles' = u.twinkles
                       /\ twinkle_seed' = u.seed
                       /\ rem_by_zero' = u.rem_by_zero
                       /\ pane' = IF u.rem_by_zero THEN << >>
                                  ELSE render_twinkles(<< >>, r, u.twinkles, 1)
              ELSE /\ pane' = << >>
                   /\ UNCHANGED <<twinkles, twinkle_seed, rem_by_zero>>
    /\ draws' = draws + 1
    /\ UNCHANGED <<render_vars, phase_vars, app_vars, files, embedded,
                   poem_library, lang, found, poem, poem_pc, view_vars>>

NextTwinkles == DrawPane

SpecTwinkles == InitTwinkles /\ [][NextTwinkles]_vars

(***************************************************************************)
(* Properties of MoonWidget::render, checked under Spec.                   *)
(***************************************************************************)
\* The cells a finished call changed.
Changed == {c \in BufCells : buf[c] # ClearedBuffer[c]}

\* A cell holding a label marker or a character of a label.
IsMarker(cell) == cell.ch = "x" /\ cell.fg = "Red"

IsLabelText(cell) == cell.fg = "Cyan" /\ cell.bold

\* C1: whatever the area, the phase and the flags (labels included), a
\* render call writes only cells of its area - sampled cells, label markers
\* and every cell of a label's text - and leaves every other cell of the
\* buffer as it was; when the area's width or height is 0 it writes no cell.
C1_WritesOnlyInsideArea ==
    pc = "done" =>
        /\ written \subseteq AreaCells(area)
        /\ Changed \subseteq AreaCells(area)
        /\ ~panicked
        /\ (area.width = 0 \/ area.height = 0) =>
               (written = {} /\ buf = ClearedBuffer)

\* A finished call with labels that wrote moon cells, a marker and the text
\* of a name, in an area narrower than the buffer.
C1_Witness ==
    /\ pc = "done"
    /\ widget.show_labels
    /\ Right(area) < BufW
    /\ \E c \in written : IsMarker(buf[c])
    /\ \E c \in written : IsLabelText(buf[c])
    /\ \E c \in written : buf[c].fg = moon_lit_color(widget.truecolor)

\* (nx - 0.5)^2 + (ny - 0.5)^2 <= 0.25 for the cell c, with the (nx, ny) the
\* call's own start_x, start_y, draw_w and draw_h give it.
InsideMask(c) ==
    LET dx == RSub(NormX(fit, c[1]), <<1, 2>>)
        dy == RSub(NormY(fit, c[2]), <<1, 2>>)
    IN  RLe(RAdd(RMul(dx, dx), RMul(dy, dy)), <<1, 4>>)

\* What the label overlay leaves in a cell: a marker, a character of a
\* name, or the blank behind a wide character.
IsLabelCell(cell) == IsMarker(cell) \/ IsLabelText(cell) \/ cell = BlankCell

\* C2 as stated: every cell a render call wrote, whatever show_labels and
\* hide_dark are, has (nx - 0.5)^2 + (ny - 0.5)^2 <= 0.25: no written cell
\* lies outside the unit-circle mask.
C2_AllWrittenInsideMask ==
    (pc = "done" /\ fitted) => \A c \in written : InsideMask(c)

\* C2 as amended: every cell the sampling pass wrote lies inside the mask,
\* and with show_labels = false these are all the written cells; a written
\* cell outside the mask holds a label marker or label text, and there are
\* none without show_labels.
C2_SampledInsideMask ==
    (pc = "done" /\ fitted) =>
        \A c \in written :
            \/ InsideMask(c)
            \/ widget.show_labels /\ IsLabelCell(buf[c])

\* A finished call with labels that wrote a moon cell inside the mask and a
\* marker and name text outside it.
C2_Witness ==
    /\ pc = "done" /\ fitted
    /\ widget.show_labels
    /\ \E c \in written :
           InsideMask(c) /\ buf[c].fg = moon_lit_color(widget.truecolor)
    /\ \E c \in written : ~InsideMask(c) /\ IsMarker(buf[c])
    /\ \E c \in written : ~InsideMask(c) /\ IsLabelText(buf[c])

\* A cell of the area the sampling loop reaches the illumination test for
\* and finds dark (intensity <= 0), and the character sampled for it.
SampledChar(c) ==
    SampleChar(source_lines(art), fit, NormX(fit, c[1]), NormY(fit, c[2]))

DarkCell(c) ==
    LET nx == NormX(fit, c[1])
        ny == NormY(fit, c[2])
    IN  /\ InUnit(ny) /\ InUnit(nx)
        /\ SampledChar(c) # "skip"
        /\ InsideMask(c)
        /\ ~Lit(nx, ny, widget.phase_fraction)

\* C3 as stated: with hide_dark = true no cell of intensity <= 0 is written,
\* whatever show_labels is; with hide_dark = false every in-disc cell of
\* intensity <= 0 ends the call holding the sampled character in the shadow
\* colour.
C3_DarkCellsAsStated ==
    (pc = "done" /\ fitted) =>
        /\ widget.hide_dark => \A c \in written : ~DarkCell(c)
        /\ ~widget.hide_dark =>
               \A c \in AreaCells(area) :
                   DarkCell(c) =>
                       /\ buf[c].ch = SampledChar(c)
                       /\ buf[c].fg = moon_shadow_color(widget.truecolor)

\* C3 as amended: with hide_dark = true the sampling pass writes no cell of
\* intensity <= 0 - such a cell is written only by the label overlay, so
\* never with show_labels = false, and no cell holds the shadow colour;
\* with hide_dark = false every in-disc cell of intensity <= 0 that no
\* label covers ends the call holding the sampled character in the shadow
\* colour.
C3_DarkCellsUnlessLabelled ==
    (pc = "done" /\ fitted) =>
        /\ widget.hide_dark =>
               /\ \A c \in written :
                      DarkCell(c) => (widget.show_labels /\ IsLabelCell(buf[c]))
               /\ \A c \in BufCells :
                      buf[c].fg # moon_shadow_color(widget.truecolor)
        /\ ~widget.hide_dark =>
               \A c \in AreaCells(area) :
                   DarkCell(c) =>
                       \/ /\ buf[c].ch = SampledChar(c)
                          /\ buf[c].fg = moon_shadow_color(widget.truecolor)
                       \/ widget.show_labels /\ IsLabelCell(buf[c])

\* A finished call with hide_dark and labels: a lit cell written, a dark
\* cell left alone, and a dark cell holding a label marker.
C3_Witness ==
    /\ pc = "done" /\ fitted
    /\ widget.hide_dark /\ widget.show_labels
    /\ \E c \in written : buf[c].fg = moon_lit_color(widget.truecolor)
    /\ \E c \in AreaCells(area) : DarkCell(c) /\ c \notin written
    /\ \E c \in written : DarkCell(c) /\ IsMarker(buf[c])

\* C4: for every area of positive width and height the drawn rectangle
\* keeps the aspect ratio of the texture's crop box,
\* draw_w * crop_h = draw_h * crop_w, in the width-limited and in the
\* height-limited branch.
C4_AspectPreserved ==
    (pc = "done" /\ fitted /\ area.width > 0 /\ area.height > 0) =>
        REq(RMul(fit.draw_w, fit.crop_h), RMul(fit.draw_h, fit.crop_w))

\* A finished call whose fit was limited by the width and left a height that
\* is not a whole number of rows.
C4_Witness ==
    /\ pc = "done" /\ fitted
    /\ area.width > 0 /\ area.height > 0
    /\ REq(fit.draw_w, R(area.width))
    /\ RLt(fit.draw_h, R(area.height))
    /\ fit.draw_h[2] # 1

OtherEncoding(fg) ==
    CASE fg = "Rgb(232,208,88)" -> "Indexed(214)"
      [] fg = "Indexed(214)" -> "Rgb(232,208,88)"
      [] fg = "Rgb(92,92,98)" -> "Indexed(242)"
      [] fg = "Indexed(242)" -> "Rgb(92,92,98)"
      [] OTHER -> fg

\* C7: the render call that differs only in the colour mode writes the same
\* cells and the same characters, and every cell has the same lit or shadow
\* classification: lit is Rgb(232,208,88) in true colour and Indexed(214)
\* otherwise, shadow is Rgb(92,92,98) and Indexed(242), and nothing else
\* differs.
C7_ColourModeOnlyRecolours ==
    pc = "done" =>
        LET other == render([widget EXCEPT !.truecolor = ~@], area, art,
                            ClearedBuffer).st
        IN  /\ other.written = written
            /\ \A c \in BufCells :
                   /\ other.buf[c].ch = buf[c].ch
                   /\ other.buf[c].bold = buf[c].bold
                   /\ other.buf[c].fg = OtherEncoding(buf[c].fg)
            /\ \A c \in written :
                   buf[c].fg \in
                       IF widget.truecolor
                       THEN {"Rgb(232,208,88)", "Rgb(92,92,98)", "Red", "Cyan", "Reset"}
                       ELSE {"Indexed(214)", "Indexed(242)", "Red", "Cyan", "Reset"}

\* A finished true-colour call that wrote a lit cell and a shadow cell.
C7_Witness ==
    /\ pc = "done"
    /\ widget.truecolor
    /\ \E c \in written : buf[c].fg = "Rgb(232,208,88)"
    /\ \E c \in written : buf[c].fg = "Rgb(92,92,98)"

\* A texture whose every character is a space (its crop box is inverted).
AllSpaces(texture) ==
    \A i \in 1 .. Len(texture) : \A j \in 1 .. Len(texture[i]) : texture[i][j] = " "

\* C8: on a degenerate input - an area of width 0 or height 0, a texture
\* with no rows, a texture of spaces only - a render call writes no cell,
\* also no label marker and no label text with show_labels, and hands no
\* cell outside the buffer to the buffer.
C8_DegenerateWritesNothing ==
    (pc = "done" /\ (area.width = 0 \/ area.height = 0 \/ AllSpaces(art))) =>
        /\ written = {}
        /\ buf = ClearedBuffer
        /\ ~panicked

\* A finished call with labels on an area of height 0 and positive width
\* and a texture that has a crop box.
C8_Witness ==
    /\ pc = "done"
    /\ widget.show_labels
    /\ area.width > 0 /\ area.height = 0
    /\ fitted
    /\ written = {}

(***************************************************************************)
(* Properties of calculate_moon_phase, checked under SpecPhase.            *)
(***************************************************************************)
\* The phase the sixteenths name: the k-th of MoonPhase (from 0) when
\* (2k - 1)/16 <= phase_fraction < (2k + 1)/16, New below 1/16 and from
\* 15/16 on.
PhaseBySixteenths(pf) ==
    IF RLt(pf, <<1, 16>>) \/ RLe(<<15, 16>>, pf) THEN "New"
    ELSE MoonPhase[1 + CHOOSE k \in 1 .. 7 :
                         RLe(<<2 * k - 1, 16>>, pf) /\ RLt(pf, <<2 * k + 1, 16>>)]

\* C9: for every phase_fraction in [0, 1) the phase is the k-th name with
\* k = round-half-away-from-zero(phase_fraction * 8) mod 8: 0.0 gives New,
\* 0.5 gives Full, 0.125 gives WaxingCrescent, every phase_fraction from
\* 15/16 on wraps to New, and the fallback arm of the match is not taken.
C9_PhaseNameBySegment ==
    (pc = "calculated"
        /\ RLe(R(0), status.phase_fraction) /\ RLt(status.phase_fraction, R(1))) =>
        /\ ~FallbackArm(status.segment)
        /\ status.phase = PhaseBySixteenths(status.phase_fraction)
        /\ REq(status.phase_fraction, R(0)) => status.phase = "New"
        /\ REq(status.phase_fraction, <<1, 2>>) => status.phase = "Full"
        /\ REq(status.phase_fraction, <<1, 8>>) => status.phase = "WaxingCrescent"
        /\ RLe(<<15, 16>>, status.phase_fraction) => status.phase = "New"

\* A finished calculation on the tie between New and WaxingCrescent,
\* phase_fraction = 1/16, named WaxingCrescent.
C9_Witness ==
    /\ pc = "calculated"
    /\ REq(status.phase_fraction, <<1, 16>>)
    /\ status.phase = "WaxingCrescent"

\* C10 as stated: normalize_degrees returns a value in [0, 360), also for a
\* negative input, so that phase_fraction is in [0, 1) and age_days in
\* [0, SYNODIC_MONTH).
C10_RangesHalfOpen ==
    pc = "calculated" =>
        /\ RLe(R(0), status.elongation_deg) /\ RLt(status.elongation_deg, R(360))
        /\ RLe(R(0), status.phase_fraction) /\ RLt(status.phase_fraction, R(1))
        /\ RLe(R(0), status.age_days) /\ RLt(status.age_days, SYNODIC_MONTH)

(***************************************************************************)
(* C11.  For every phase_fraction in [0, 1) the illumination lies in       *)
(* [0, 100], is about 0 at phase_fraction 0 and about 100 at 0.5, does not *)
(* decrease with the phase up to 0.5 and does not increase from 0.5 on.    *)
(* The order is checked between each elongation and the next one the       *)
(* calculator can be at, which gives it between any two.                   *)
(***************************************************************************)
\* The next float above the elongation e that is a multiple of 2^-FracBits.
NextElongation(e) ==
    LET step(k) == Q(RAdd(e, <<k, Pow2(FracBits)>>))
    IN  step(SetMin({k \in 1 .. Pow2(9 - MantBits + FracBits) : Representable(step(k))}))

InPhaseRange(s) == RLe(R(0), s.phase_fraction) /\ RLt(s.phase_fraction, R(1))

Sampled ==
    SampleLoop([buf |-> ClearedBuffer, written |-> {}, panicked |-> FALSE],
               source_lines(art), fit, widget, area)

RECURSIVE LabelSteps(_, _)
LabelSteps(st, f) ==
    IF f > NumFeatures THEN << >>
    ELSE LET after == RenderLabel(st, f, area, fit, widget)
         IN  <<after>> \o LabelSteps(after, f + 1)

\* Steps[f + 1] is the buffer after feature f, Steps[1] after the sampling.
Steps == <<Sampled>> \o LabelSteps(Sampled, 1)

\* The cells of feature f's name, from the cell right of its marker on.
NameCells(f) ==
    LET c == FeatureCell(fit, f)
    IN  {<<x, c[2]>> : x \in c[1] + 1 .. c[1] + NameWidth(f, widget.language)}

\* The whole name lies inside the area: it does not overflow the right edge.
NameFitsArea(f) == NameCells(f) \subseteq AreaCells(area)

\* The name of feature f stands in st in full, each character in its column
\* and a blank behind each wide one.
NameInFull(st, f) ==
    LET c == FeatureCell(fit, f)
        cw == CharWidth(widget.language)
    IN  /\ NameCells(f) \subseteq BufCells
        /\ NameCells(f) \subseteq st.written
        /\ \A k \in 1 .. LUNAR_FEATURE_NAME_CHARS[f][LanguageIndex(widget.language)] :
               /\ st.buf[<<c[1] + 1 + (k - 1) * cw, c[2]>>] =
                      [ch |-> NameGlyph(f, widget.language, k),
                       fg |-> "Cyan", bold |-> TRUE]
               /\ cw = 2 => st.buf[<<c[1] + 2 + (k - 1) * cw, c[2]>>] = BlankCell

\* Between before and after nothing but the marker cell of f was written.
OnlyMarkerWritten(before, after, f) ==
    /\ after.written \ before.written \subseteq {FeatureCell(fit, f)}
    /\ \A c \in BufCells \ {FeatureCell(fit, f)} : after.buf[c] = before.buf[c]

MarkerWritten(st, f) ==
    /\ FeatureCell(fit, f) \in st.written
    /\ st.buf[FeatureCell(fit, f)].ch = "x"
    /\ st.buf[FeatureCell(fit, f)].fg = "Red"

Labelled == pc = "done" /\ fitted /\ widget.show_labels

(***************************************************************************)
(* C13.  With show_labels, for every feature whose marker cell lies in the *)
(* area the marker is written there, and the name is written in full from  *)
(* the next cell on exactly when the whole name fits inside the area;      *)
(* otherwise no cell of the name is written.  Never a part of a name.      *)
(***************************************************************************)
C13_NameWrittenIffItFits ==
    Labelled =>
        LET steps == Steps
        IN  /\ \A f \in 1 .. NumFeatures :
                   FeatureCell(fit, f) \in AreaCells(area) =>
                       /\ MarkerWritten(steps[f + 1], f)
                       /\ IF NameFitsArea(f) THEN NameInFull(steps[f + 1], f)
                          ELSE OnlyMarkerWritten(steps[f], steps[f + 1], f)
            /\ steps[NumFeatures + 1].buf = buf

\* What the code does: a name that would end in the area's last column is
\* left out as well.
C13_NameWrittenIfRoomToSpare ==
    Labelled =>
        LET steps == Steps
        IN  /\ \A f \in 1 .. NumFeatures :
                   FeatureCell(fit, f) \in AreaCells(area) =>
                       /\ MarkerWritten(steps[f + 1], f)
                       /\ IF FeatureCell(fit, f)[1] + 1 + NameWidth(f, widget.language)
                                < Right(area)
                          THEN NameInFull(steps[f + 1], f)
                          ELSE OnlyMarkerWritten(steps[f], steps[f + 1], f)
            /\ steps[NumFeatures + 1].buf = buf

(***************************************************************************)
(* C14.  The label overlay runs after all sampling and takes the features  *)
(* in table order without looking for collisions: a cell that the markers  *)
(* or names of several features cover ends with the character and colour   *)
(* of the last of them in LUNAR_FEATURES, and a cell that a label and the  *)
(* shaded moon share ends with the label's; every other cell is as the     *)
(* sampling left it.  (A marker is written with set_fg, which leaves the   *)
(* cell's modifiers: on the text of an earlier name it stays bold.)        *)
(***************************************************************************)
\* Feature f alone, on a cleared buffer: the cells of its label.
Alone(f) ==
    RenderLabel([buf |-> ClearedBuffer, written |-> {}, panicked |-> FALSE],
                f, area, fit, widget)

Glyph(cell) == <<cell.ch, cell.fg>>

C14_LastFeatureWins ==
    Labelled =>
        LET labels == {<<f, Alone(f)>> : f \in 1 .. NumFeatures}
            alone(f) == (CHOOSE l \in labels : l[1] = f)[2]
            sampled == Sampled
        IN  \A c \in BufCells :
                LET over == {l[1] : l \in {k \in labels : c \in k[2].written}}
                IN  IF over = {} THEN buf[c] = sampled.buf[c]
                    ELSE Glyph(buf[c]) = Glyph(alone(SetMax(over)).buf[c])

\* Two features with different things to say about one cell, and a label
\* on a cell of the shaded moon.
C14_Witness ==
    /\ Labelled
    /\ \E c \in BufCells : \E f1, f2 \in 1 .. NumFeatures :
           /\ f1 < f2
           /\ c \in Alone(f1).written \cap Alone(f2).written
           /\ Glyph(Alone(f1).buf[c]) # Glyph(Alone(f2).buf[c])
           /\ Glyph(buf[c]) = Glyph(Alone(f2).buf[c])
    /\ \E c \in Sampled.written : \E f \in 1 .. NumFeatures :
           c \in Alone(f).written /\ Sampled.buf[c].ch # " "

(***************************************************************************)
(* C15.  With hide_dark and no labels, a finished frame - print_moon's or  *)
(* any of the interactive loop's, whatever the frames before it showed -   *)
(* has a space in every cell but those of the lit part of the disc: the    *)
(* unlit cells of the disc and the cells outside it are as the cleared     *)
(* buffer has them.                                                        *)
(***************************************************************************)
LitCell(c) ==
    LET nx == NormX(fit, c[1])
        ny == NormY(fit, c[2])
    IN  /\ fitted
        /\ c \in AreaCells(area)
        /\ InUnit(ny) /\ InUnit(nx)
        /\ SampledChar(c) # "skip"
        /\ InsideMask(c)
        /\ Lit(nx, ny, widget.phase_fraction)

FrameDone == pc \in {"printed", "event"}

C15_HideDarkLeavesSpaces ==
    (FrameDone /\ widget.hide_dark /\ ~widget.show_labels) =>
        \A c \in BufCells : ~LitCell(c) => buf[c] = BlankCell

\* An interactive frame with hide_dark: a lit cell shown, and a dark cell
\* of the disc blank where the texture has a character.
C15_Witness ==
    /\ pc = "event" /\ fitted
    /\ widget.hide_dark /\ ~widget.show_labels
    /\ \E c \in BufCells : LitCell(c) /\ buf[c].ch # " "
    /\ \E c \in AreaCells(area) :
           DarkCell(c) /\ SampledChar(c) # " " /\ buf[c] = BlankCell

\* A cell the sampling loop of the finished call shaded: in the box, with a
\* texture row to sample, and not outside the disc.
InDisc(c) ==
    /\ fitted
    /\ c \in AreaCells(area) \cap BufCells
    /\ InUnit(NormY(fit, c[2])) /\ InUnit(NormX(fit, c[1]))
    /\ SampledChar(c) # "skip"
    /\ InsideMask(c)

\* The cell shows the lit colour.
ShownLit(c) == c \in written /\ buf[c].fg = moon_lit_color(widget.truecolor)

\* u and z * z of the cell.
SphereOf(c) == Sphere(NormX(fit, c[1]), NormY(fit, c[2]))

\* C20: after a render without labels, at phase_fraction 0 no cell of the
\* disc is lit, at 0.5 every cell strictly inside the disc is lit, at 0.25
\* a cell of the disc is lit exactly when u > 0, and at 0.75 exactly when
\* u < 0.
C20_TerminatorFollowsPhase ==
    (pc = "done" /\ ~widget.show_labels) =>
        \A c \in BufCells : InDisc(c) =>
            /\ widget.phase_fraction = PhaseNew => ~ShownLit(c)
            /\ (widget.phase_fraction = PhaseFull /\ RSign(SphereOf(c).zz) > 0)
                  => ShownLit(c)
            /\ widget.phase_fraction = PhaseFirstQuarter
                  => (ShownLit(c) <=> RSign(SphereOf(c).u) > 0)
            /\ widget.phase_fraction = PhaseLastQuarter
                  => (ShownLit(c) <=> RSign(SphereOf(c).u) < 0)

\* What the code does at 0.75: the cells of the centre column, u = 0, are
\* lit too, but for those on the rim.
C20_LastQuarterLightsCentre ==
    (pc = "done" /\ ~widget.show_labels) =>
        \A c \in BufCells : InDisc(c) =>
            /\ widget.phase_fraction = PhaseNew => ~ShownLit(c)
            /\ (widget.phase_fraction = PhaseFull /\ RSign(SphereOf(c).zz) > 0)
                  => ShownLit(c)
            /\ widget.phase_fraction = PhaseFirstQuarter
                  => (ShownLit(c) <=> RSign(SphereOf(c).u) > 0)
            /\ widget.phase_fraction = PhaseLastQuarter
                  => (ShownLit(c) <=> \/ RSign(SphereOf(c).u) < 0
                                      \/ /\ RSign(SphereOf(c).u) = 0
                                         /\ RSign(SphereOf(c).zz) > 0)

\* The texture indices of an in-box cell of the finished call.
SrcX(c) == RFloor(RAdd(R(fit.min_x), RMul(NormX(fit, c[1]), fit.crop_w)))

SrcY(c) == RFloor(RAdd(R(fit.min_y), RMul(NormY(fit, c[2]), fit.crop_h)))

\* The cell is in the drawn rectangle.
InBox(c) ==
    /\ fitted
    /\ c \in AreaCells(area) \cap BufCells
    /\ InUnit(NormY(fit, c[2])) /\ InUnit(NormX(fit, c[1]))

\* C21: for every cell of the drawn rectangle the texture indices lie in
\* the crop box, so that the row exists and the `src_y >= rows` guard
\* does not fire; and a cell the call shades holds the character at these
\* indices, or a space when the column is past the end of its row.
C21_TextureIndicesInCrop ==
    (pc = "done" /\ ~widget.show_labels) =>
        \A c \in BufCells : InBox(c) =>
            LET sl == source_lines(art)
                bb == BoundingBox(sl)
            IN  /\ bb.min_x <= SrcX(c) /\ SrcX(c) <= bb.max_x
                /\ bb.min_y <= SrcY(c) /\ SrcY(c) <= bb.max_y
                /\ SrcY(c) < Len(sl)
                /\ (InsideMask(c) /\ (LitCell(c) \/ ~widget.hide_dark)) =>
                       /\ c \in written
                       /\ buf[c].ch = IF SrcX(c) < Len(sl[SrcY(c) + 1])
                                      THEN sl[SrcY(c) + 1][SrcX(c) + 1]
                                      ELSE " "

\* A cell of the disc whose column is past the end of its texture row,
\* written as a space.
C21_Witness ==
    /\ pc = "done"
    /\ ~widget.show_labels
    /\ \E c \in written :
           /\ InBox(c)
           /\ SrcX(c) >= Len(source_lines(art)[SrcY(c) + 1])
           /\ buf[c].ch = " "

\* The character of the texture at column x of row y, 0-based; a column
\* past the end of the row is a space.
TextureAt(x, y) ==
    LET sl == source_lines(art)
    IN  IF y < Len(sl) /\ x < Len(sl[y + 1]) THEN sl[y + 1][x + 1] ELSE " "

\* The columns and rows of the texture.
TextureColumns ==
    0 .. SetMax({0} \cup {Len(source_lines(art)[y]) : y \in 1 .. Len(source_lines(art))})

TextureRows == 0 .. Len(source_lines(art))

\* C22: when rendering proceeds, the crop box is the tight bounding box of
\* the non-space characters of the texture, whose rows differ in length:
\* every non-space character is inside it, each of its four edges holds a
\* non-space character, and crop_w = max_x - min_x + 1 and
\* crop_h = max_y - min_y + 1 are at least 1.
C22_TightBoundingBox ==
    (pc = "done" /\ fitted) =>
        LET min_x == fit.min_x
            min_y == fit.min_y
            max_x == fit.min_x + RFloor(fit.crop_w) - 1
            max_y == fit.min_y + RFloor(fit.crop_h) - 1
        IN  /\ fit.crop_w[2] = 1 /\ fit.crop_w[1] >= 1
            /\ fit.crop_h[2] = 1 /\ fit.crop_h[1] >= 1
            /\ \A x \in TextureColumns, y \in TextureRows :
                   TextureAt(x, y) # " " =>
                       /\ min_x <= x /\ x <= max_x
                       /\ min_y <= y /\ y <= max_y
            /\ \E y \in min_y .. max_y : TextureAt(min_x, y) # " "
            /\ \E y \in min_y .. max_y : TextureAt(max_x, y) # " "
            /\ \E x \in min_x .. max_x : TextureAt(x, min_y) # " "
            /\ \E x \in min_x .. max_x : TextureAt(x, max_y) # " "

\* A render of the texture of five rows of five lengths, with a blank
\* row above and a blank column left of its crop box.
C22_Witness ==
    /\ pc = "done"
    /\ fitted
    /\ art = ArtSquare
    /\ fit.min_x = 1
    /\ fit.min_y = 1
    /\ fit.crop_w = R(4)
    /\ fit.crop_h = R(4)
    /\ written # {}

(***************************************************************************)
(* Properties of main and run_app, checked under SpecApp.                  *)
(***************************************************************************)
\* The loop of run_app is running.
InLoop == app_pc \in {"draw", "tick", "poll", "handle"}

\* C16: in the interactive loop Left and Right move the date by exactly one
\* day back and forth and leave the mode Manual; in Manual mode the date
\* changes by the keys Left, Right and 'n' only, so that no timer tick
\* changes it; the mode goes back to Now (auto) by 'n' only, which sets the
\* date to the current time and restarts the tick timer; a run started with
\* --date starts in Manual mode, one without it in Now (auto); and the frame
\* drawn at the head of every iteration shows that date and that mode.
C16_DateKeysAndModes ==
    [][/\ (app_pc = "handle" /\ event = "Left")
            => (date' = date - Day /\ ~follow_now')
       /\ (app_pc = "handle" /\ event = "Right")
            => (date' = date + Day /\ ~follow_now')
       /\ (InLoop /\ ~follow_now /\ date' # date)
            => (app_pc = "handle" /\ event \in {"Left", "Right", "n"})
       /\ (InLoop /\ ~follow_now /\ follow_now')
            => (app_pc = "handle" /\ event = "n")
       /\ (app_pc = "handle" /\ event = "n")
            => (follow_now' /\ date' = now' /\ last_tick' = now')
       /\ (app_pc = "main" /\ app_pc' = "draw")
            => (follow_now' <=> args.date = << >>)
       /\ app_pc' = "tick"
            => /\ frame'.date = date'
               /\ frame'.mode = IF follow_now' THEN "Now (auto)" ELSE "Manual"
      ]_vars

\* A run started without --date was moved a day back by Left, the frame
\* shows that day in Manual mode, and an auto-refresh period has passed.
C16_Witness ==
    /\ app_pc = "poll"
    /\ args.date = << >>
    /\ frame = [date |-> date, mode |-> "Manual"]
    /\ date < 0
    /\ args.refresh_minutes > 0
    /\ last_tick = now
    /\ now >= args.refresh_minutes

\* C17: with refresh_minutes = 0 the timer tick never fires, it leaves the
\* date, the timer and needs_redraw alone, and the date changes by the keys
\* 'n', Left and Right only; with refresh_minutes > 0 and in Now (auto)
\* mode, the tick that finds a period elapsed sets the date to the current
\* time, restarts the timer and asks for a redraw.
C17_AutoRefresh ==
    [][/\ (InLoop /\ args.refresh_minutes = 0 /\ date' # date)
            => (app_pc = "handle" /\ event \in {"n", "Left", "Right"})
       /\ (app_pc = "tick" /\ args.refresh_minutes = 0)
            => UNCHANGED <<date, last_tick, needs_redraw>>
       /\ (app_pc = "tick" /\ args.refresh_minutes > 0 /\ follow_now
             /\ now - last_tick >= args.refresh_minutes)
            => (date' = now /\ last_tick' = now /\ needs_redraw')
      ]_vars

\* In Now (auto) mode a period went by and the tick moved the date from the
\* time of the start to the current time.
C17_Witness ==
    /\ app_pc = "poll"
    /\ args.refresh_minutes > 0
    /\ follow_now
    /\ now > 0
    /\ date = now
    /\ last_tick = now
    /\ needs_redraw
    /\ frame = [date |-> 0, mode |-> "Now (auto)"]

\* C19: with --lines N the program renders into the area of height N and
\* of width min(floor(2 * N), terminal width) at the origin, with labels
\* off, writes exactly N rows, each of them one symbol for every cell of
\* the row followed by the colour reset and the newline, and ends; it never
\* enables raw mode, draws no frame and never enters the event loop.
C19_PrintMode ==
    args.lines # << >> =>
        /\ app_pc \in {"main", "failed", "exited"}
        /\ ~raw_mode
        /\ frame = NoFrame
        /\ event = "none"
        /\ app_pc = "exited" =>
              /\ area = [x |-> 0, y |-> 0,
                         width |-> Min(2 * args.lines[1], terminal_width),
                         height |-> args.lines[1]]
              /\ ~widget.show_labels
              /\ ~panicked
              /\ Len(stdout) = args.lines[1]
              /\ \A y \in 1 .. Len(stdout) :
                     /\ Len(stdout[y].cells) = area.width
                     /\ \A x \in 1 .. area.width :
                            stdout[y].cells[x].symbol = buf[<<x - 1, y - 1>>].ch
                     /\ stdout[y].end = "ESC[0m\n"

\* A print of MaxH rows on a terminal narrower than twice that, with a
\* moon in it.
C19_Witness ==
    /\ app_pc = "exited"
    /\ args.lines = <<MaxH>>
    /\ terminal_width < 2 * MaxH
    /\ terminal_width > 0
    /\ Len(stdout) = MaxH
    /\ \E y \in 1 .. MaxH : \E x \in 1 .. terminal_width :
           stdout[y].cells[x].symbol # " "

\* The colour an escape sequence of color_to_ansi_fg puts into effect.
ColourOf(esc) ==
    CASE esc = "ESC[39m" -> "Reset"
      [] esc = "ESC[31m" -> "Red"
      [] esc = "ESC[36m" -> "Cyan"
      [] esc = "ESC[38;2;232;208;88m" -> "Rgb(232,208,88)"
      [] esc = "ESC[38;2;92;92;98m" -> "Rgb(92,92,98)"

\* The foreground colour in effect as the symbol of cell x of row y is
\* written: the one of the last escape sequence of the row so far, and the
\* terminal's default when the row has had none, since the row above ended
\* with ESC[0m.
Active(y, x) ==
    LET escs == {k \in 1 .. x : stdout[y].cells[k].esc # ""}
    IN  IF escs = {} THEN "Reset"
        ELSE ColourOf(stdout[y].cells[SetMax(escs)].esc)

\* C27: in print mode every symbol is written while the colour in effect
\* is the colour of its cell, the first cell of a row included.
C27_SymbolsInTheirColour ==
    (app_pc = "exited" /\ stdout # << >>) =>
        \A y \in 1 .. Len(stdout) : \A x \in 1 .. Len(stdout[y].cells) :
            Active(y, x) = buf[<<x - 1, y - 1>>].fg

(***************************************************************************)
(* Properties of load_poems and pick_poem, checked under SpecPoems.        *)
(***************************************************************************)
\* The entries of the language's directory that yield a poem.
Yielding(l) ==
    IF ~files[l].ok THEN {}
    ELSE {i \in 1 .. Len(files[l].entries) :
             /\ files[l].entries[i].txt
             /\ files[l].entries[i].readable
             /\ parse_poem_text(files[l].entries[i].text) # << >>}

\* The embedded texts of the language that yield a poem.
BuiltIn(l) ==
    {i \in 1 .. Len(embedded) :
        embedded[i][1] = l /\ parse_poem_text(embedded[i][2]) # << >>}

\* The poems of a list, with their numbers.
Holding(poems) ==
    {<<p, Cardinality({i \in 1 .. Len(poems) : poems[i] = p})>> :
        p \in {poems[i] : i \in 1 .. Len(poems)}}

\* C18: for each of the five languages the library load_poems builds
\* holds, when the directory yields a poem of the language, the poems of
\* the directory, each once for each file that yields it, and nothing
\* else, and otherwise the built-in poems of the language in the same way;
\* and pick_poem falls back on the placeholder exactly when the library
\* has no poem of the language, and returns a poem of the library
\* otherwise.
C18_MergePerLanguage ==
    /\ poem_pc \in {"loaded", "picked"} =>
          \A l \in LanguageSet :
              LET fs_poems == {<<i, parse_poem_text(files[l].entries[i].text)[1]>> :
                                  i \in Yielding(l)}
                  built_in == {<<i, parse_poem_text(embedded[i][2])[1]>> :
                                  i \in BuiltIn(l)}
                  source == IF Yielding(l) # {} THEN fs_poems ELSE built_in
              IN  /\ Len(poem_library[l]) = Cardinality(source)
                  /\ Holding(poem_library[l]) =
                         {<<p, Cardinality({s \in source : s[2] = p})>> :
                             p \in {s[2] : s \in source}}
    /\ poem_pc = "picked" =>
          /\ found = << >> <=> poem_library[lang] = << >>
          /\ found = << >> => poem = placeholder_poem
          /\ found # << >> =>
                 /\ poem = found[1]
                 /\ \E i \in 1 .. Len(poem_library[lang]) :
                        poem_library[lang][i] = poem

\* A directory with poems of one language and none of another, for which
\* there are built-in poems, picked from; and a language of neither.
C18_Witness ==
    /\ poem_pc = "picked"
    /\ Yielding("English") # {}
    /\ BuiltIn("English") # {}
    /\ Yielding("Chinese") = {}
    /\ BuiltIn("Chinese") # {}
    /\ Yielding("French") = {}
    /\ BuiltIn("French") = {}
    /\ lang = "Chinese"
    /\ found # << >>

(***************************************************************************)
(* Properties of calculate_moon_phase from the date on, checked under      *)
(* SpecMeeus.                                                              *)
(***************************************************************************)
\* C12: at 2025-12-13T04:46:50Z, where the published illumination is
\* 37.1%, the illumination calculate_moon_phase returns is within 6
\* percentage points of it, and at the published Full Moon of
\* 2025-12-04T23:14:00Z it is at least 95%.
C12_AgreesWithPublishedValues ==
    pc = "dated" =>
        /\ dt = Instant(2025, 12, 13, 4, 46, 50) =>
               /\ RLe(<<371 - 60, 10>>, status.illumination)
               /\ RLe(status.illumination, <<371 + 60, 10>>)
        /\ dt = Instant(2025, 12, 4, 23, 14, 0) =>
               RLe(R(95), status.illumination)

\* The Full Moon of the test, found full: the elongation within a degree
\* of 180.
C12_Witness ==
    /\ pc = "dated"
    /\ dt = Instant(2025, 12, 4, 23, 14, 0)
    /\ status.phase = "Full"
    /\ RLt(R(179), status.elongation_deg)
    /\ RLt(status.elongation_deg, R(181))

(***************************************************************************)
(* Properties of the poem pane, checked under SpecPoemView.                *)
(***************************************************************************)

\* Inside the loop of run_app.
InView == poem_pc \in {"animate", "draw", "poll"}

\* The fade levels of a poem_state are those of lines fading in one at a
\* time from the top.
OneAtATime(state) ==
    LET n == Len(state.poem.lines)
    IN  /\ Len(state.line_fade) = n
        /\ \A i \in 1 .. n : state.line_fade[i] \in 0 .. LINE_FADE_STEPS
        /\ state.fade_idx \in 0 .. n
        /\ state.fade_step \in 0 .. LINE_FADE_STEPS - 1
        /\ \A i \in 1 .. n :
               state.line_fade[i] =
                   IF i < state.fade_idx + 1 THEN LINE_FADE_STEPS
                   ELSE IF i = state.fade_idx + 1 THEN state.fade_step
                   ELSE 0

\* Nothing of a poem_state has faded in yet.
FadeAtZero(state) ==
    /\ state.line_fade = [i \in 1 .. Len(state.poem.lines) |-> 0]
    /\ state.fade_idx = 0
    /\ state.fade_step = 0

\* C23: in the loop, line_fade has one entry per line of the poem, each in
\* 0..=LINE_FADE_STEPS; fade_idx is at most the number of lines; the lines
\* before fade_idx are at LINE_FADE_STEPS, the line at fade_idx is at
\* fade_step, which is below LINE_FADE_STEPS, and the lines after it are at
\* 0; a step that does not reset the fade raises the line at fade_idx by one
\* level and no other; and every change of the poem resets the fade to zero.
C23_FadeOneLineAtATime ==
    /\ [](InView => OneAtATime(poem_state))
    /\ [][/\ poem_state'.poem # poem_state.poem => FadeAtZero(poem_state')
          /\ (InView /\ poem_state' # poem_state) =>
                 \/ FadeAtZero(poem_state')
                 \/ /\ poem_state'.poem = poem_state.poem
                    /\ \E i \in 1 .. Len(poem_state.line_fade) :
                           /\ i = poem_state.fade_idx + 1
                           /\ poem_state'.line_fade =
                                  [poem_state.line_fade EXCEPT ![i] = @ + 1]]_vars

\* The second of three lines half faded in, the first one full, the third
\* not begun.
C23_Witness ==
    /\ InView
    /\ show_poem
    /\ Len(poem_state.poem.lines) = 3
    /\ poem_state.line_fade = <<LINE_FADE_STEPS, 3, 0>>
    /\ poem_state.fade_idx = 1
    /\ poem_state.fade_step = 3

\* C26: in the loop, while the poem pane is shown, the poem is one of the
\* active language, or the placeholder when that language has no poem,
\* whatever 'L', 'p' and 'P' were pressed; and 'P' changes nothing while
\* the pane is hidden.
C26_PoemOfActiveLanguage ==
    /\ []((InView /\ show_poem) =>
              IF poem_library[app_language] = << >>
              THEN poem_state.poem = placeholder_poem
              ELSE \E i \in 1 .. Len(poem_library[app_language]) :
                       poem_state.poem = poem_library[app_language][i])
    /\ [][(KeyNextPoem /\ ~show_poem) =>
              UNCHANGED <<view_vars, show_poem, needs_redraw, view_rest>>]_vars

\* The pane shown with a poem of the language 'L' changed to, its first
\* line faded in.
C26_Witness ==
    /\ InView
    /\ show_poem
    /\ app_language = "Chinese"
    /\ poem_library["Chinese"] # << >>
    /\ poem_state.poem = poem_library["Chinese"][1]
    /\ poem_state.fade_idx = 1

(***************************************************************************)
(* Properties of the twinkles, checked under SpecTwinkles.                 *)
(***************************************************************************)

\* The last frame called update_twinkles and render_twinkles.
Twinkled == draws > 0 /\ ~rem_by_zero /\ inner.width >= 2 /\ inner.height >= 2

\* The cells of the frame around the pane: `inner`, the border and one
\* cell more on each side.
PaneFrame ==
    (Left(inner) - 2 .. Right(inner) + 1) \X (Top(inner) - 2 .. Bottom(inner) + 1)

\* Inside `inner` and not on its first or last row or column.
StrictlyInside(c) ==
    /\ Left(inner) < c[1] /\ c[1] < Right(inner) - 1
    /\ Top(inner) < c[2] /\ c[2] < Bottom(inner) - 1

\* C24: render_twinkles changes a cell only if its symbol is " " and it is
\* strictly inside the pane; a cell with a character of the poem other
\* than a space, and a cell outside the pane, is as the paragraph and the
\* block left it.
C24_TwinklesOnlyOnBlanks ==
    Twinkled =>
        /\ \A c \in DOMAIN pane :
               pane[c] # Paragraph(inner, c) =>
                   /\ Paragraph(inner, c).symbol = " "
                   /\ StrictlyInside(c)
        /\ \A c \in PaneFrame :
               (Paragraph(inner, c).symbol # " " \/ ~StrictlyInside(c)) =>
                   CellAt(pane, inner, c) = Paragraph(inner, c)

\* A frame with a twinkle drawn and another one left out because it is on
\* a letter of the poem.
C24_Witness ==
    /\ Twinkled
    /\ \E c \in DOMAIN pane : pane[c].symbol = twinkle_char(0)
    /\ \E i \in 1 .. Len(twinkles) :
           LET c == <<Left(inner) + twinkles[i].x, Top(inner) + twinkles[i].y>>
           IN  /\ StrictlyInside(c)
               /\ Paragraph(inner, c).symbol = "m"
               /\ c \notin DOMAIN pane

\* The twinkles that outlive one more call.
Kept(tw) == SelectSeq(tw, LAMBDA t : t.ttl > 1)

\* C25: after update_twinkles on an area of at least 6 by 6 there are 10 to
\* 25 twinkles, each with 1 <= ttl <= 53 and inside the area; the call
\* lowers the ttl of each twinkle by 1, drops those that reach 0 and keeps
\* the others in their order, and the ones it adds have 1 <= x <= width - 2
\* and 1 <= y <= height - 2; on a smaller area no twinkle is left; and no
\* call takes a remainder by zero.
C25_TwinkleField ==
    /\ [](~rem_by_zero)
    /\ []((Twinkled /\ ~TooSmall(inner)) =>
              /\ Len(twinkles) \in 10 .. 25
              /\ \A i \in 1 .. Len(twinkles) :
                     /\ twinkles[i].ttl \in 1 .. 53
                     /\ twinkles[i].x \in 0 .. inner.width - 1
                     /\ twinkles[i].y \in 0 .. inner.height - 1)
    /\ []((Twinkled /\ TooSmall(inner)) => twinkles = << >>)
    /\ [][(Twinkled' /\ ~TooSmall(inner') /\ draws' # draws) =>
              /\ Len(twinkles') >= Len(Kept(twinkles))
              /\ \A i \in 1 .. Len(twinkles') :
                     IF i <= Len(Kept(twinkles))
                     THEN /\ twinkles'[i].ttl = Kept(twinkles)[i].ttl - 1
                          /\ twinkles'[i].kind = Kept(twinkles)[i].kind
                          /\ twinkles'[i].x = Min(Kept(twinkles)[i].x, inner'.width - 1)
                          /\ twinkles'[i].y = Min(Kept(twinkles)[i].y, inner'.height - 1)
                     ELSE /\ twinkles'[i].x \in 1 .. inner'.width - 2
                          /\ twinkles'[i].y \in 1 .. inner'.height - 2
                          /\ twinkles'[i].ttl \in 28 .. 53]_vars

\* A pane made smaller after twinkles have run out and been replaced: 25
\* twinkles, one in its last frame, one moved onto the last column.
C25_Witness ==
    /\ Twinkled
    /\ ~TooSmall(inner)
    /\ draws > 28
    /\ resizes = 1
    /\ Len(twinkles) > 10
    /\ \E i \in 1 .. Len(twinkles) : twinkles[i].ttl = 1
    /\ \E i \in 1 .. Len(twinkles) : twinkles[i].x = inner.width - 1

=============================================================================
